---- MODULE Spec2Model ----
(***************************************************************************)
(* StablePay: the relay connection (core/websocket/client.ts), the         *)
(* directory lookup and inbound dispatch (core/websocket/messageHandler.ts, *)
(* userService.ts), the request store (store) and the payment-request      *)
(* service (features/payments/services).                                   *)
(*                                                                         *)
(* The JavaScript runtime is single threaded: every exported call, socket  *)
(* event and timer callback runs to completion, so each is one action.     *)
(* The whole program state is gathered in the record W; every function of  *)
(* the source is an operator from a state record to the state record the   *)
(* function leaves behind, so a handler that calls other functions is the  *)
(* composition of their operators.                                         *)
(***************************************************************************)
EXTENDS Integers, Sequences, FiniteSets, TLC

VARIABLES
    socks,              \* readyState of the WebSocket objects that exist
    ws,                 \* WebSocketClient.ws (0 = null)
    connectionState,    \* WebSocketClient.state.connectionState
    isAuthenticated,    \* WebSocketClient.state.isAuthenticated
    reconnectAttempts,  \* WebSocketClient.state.reconnectAttempts
    lastError,          \* WebSocketClient.state.lastError ("" = undefined)
    initialized,        \* privateKey and address are bound
    keyValid,           \* the bound privateKey is one that ethers.Wallet accepts
    reconnectTimer,     \* WebSocketClient.reconnectTimer: "null", or a handle "live" or "fired"
    pingTimer,          \* WebSocketClient.pingTimer is not null
    leakedIntervals,    \* running heartbeat intervals whose handle was overwritten
    messageQueue,       \* WebSocketClient.messageQueue
    wire,               \* frames handed to ws.send by the last step, in order
    authPending,        \* relay, per socket: auth frames received and not answered
    relayAuthed,        \* relay, per socket: the relay has accepted an auth frame on it
    hung,               \* the event loop is stuck in a loop that never ends
    appSubscribed,      \* App.initializeApp's onStateChange subscriber is registered
    msgHandlerOn,       \* messageHandler.handleMessage is subscribed to onMessage
    messageHandlers,    \* the other onMessage subscribers, in the order they were added
    callbacks,          \* the subscriber calls of the last step, in order, each with its argument
    pendingLookups,     \* messageHandler.pendingLookups: entries [query, call] in insertion order
    calls,              \* the promises returned by lookupUser, and by a lookupAny that threw before it, in call order
    relayLookups,       \* relay: lookup frames received and not answered, oldest first
    pendingRequests,    \* useAppStore.pendingRequests
    createResults,      \* what the createPaymentRequest calls of the last step returned, each with what its send() returned
    errorLog,           \* what the catch blocks of the last step logged with console.error
    directoryKey,       \* relay: the encryption key last registered for this address ("" = none)
    x25519PrivateKey,   \* keychain: wallet.x25519PrivateKey, as bytes
    exchange,           \* a peer that sends payment requests to this address: its store and its frames at the relay
    envelope,           \* an input of the encryption envelope, what it was sealed to and what was opened
    now,                \* Date.now()
    awaitingKey,        \* handleIncomingPaymentRequest calls waiting for the keychain
    paying,             \* RequestDetailsScreen.handlePay calls waiting for the transfer
    savingUsername,     \* ProfileScreen.handleSaveUsername is waiting for the keychain
    scheduledDelay,     \* history: delay of the latest reconnect setTimeout in the current run of non-normal closures (0 = none)
    autoAttempts,       \* history: sockets opened by the reconnect timer since the connection was last connected or the caller last called connect() or disconnect()
    userDisconnected,   \* history: the caller's disconnect() returned and connect() was not called since
    authRejected,       \* history: auth_error was handled and connect() was not called since
    overtaken,          \* history: ids of the payment_request frames waiting for the keychain
                        \* whose request_cancelled or request_paid frame was handled meanwhile
    transfers           \* the requests whose sendPayment call by handlePay has not returned

vars == << socks, ws, connectionState, isAuthenticated, reconnectAttempts,
           lastError, initialized, keyValid, reconnectTimer, pingTimer,
           leakedIntervals, messageQueue, wire, authPending, relayAuthed,
           hung, appSubscribed, msgHandlerOn, messageHandlers, callbacks,
           pendingLookups, calls, relayLookups, pendingRequests, createResults, errorLog, directoryKey,
           x25519PrivateKey, exchange, envelope, now, awaitingKey, paying, savingUsername,
           scheduledDelay, autoAttempts, userDisconnected, authRejected,
           overtaken, transfers >>

----------------------------------------------------------------------------
(* Bounds of the model *)

MaxSockets == 2     \* WebSocket objects alive at the same time
MaxQueue == 2       \* length of the outbound queue
MaxLeaked == 1      \* heartbeat intervals running without a handle
MaxCalls == 2       \* lookupUser calls in one run
MaxLedger == 2      \* entries in the request store
MaxRequests == 2    \* distinct request ids
MaxAwaiting == 1    \* inbound payment requests waiting for the keychain
MaxOver == 1        \* automatic reconnect attempts followed beyond MAX_RECONNECT_ATTEMPTS
MaxTick == 1        \* clock readings after the first, one expiry period apart
MaxScalar == 2      \* X25519 private keys
MaxNonce == 1       \* largest byte a random nonce is filled with
MaxPlain == 2       \* bytes of a plaintext
MaxExchange == 1    \* payment requests the peer creates
MaxSeals == 2       \* calls of encrypt for one plaintext and one recipient

(* Program constants *)

MAX_RECONNECT_ATTEMPTS == 10
INITIAL_RECONNECT_DELAY == 1000
MAX_RECONNECT_DELAY == 30000
REQUEST_EXPIRY_MS == 3600000
HKDF_INFO == "stablepay-e2ee-v1"
NONCE_LENGTH == 12

(* the Diffie-Hellman group that stands for Curve25519 *)
Prime == 127
BasePoint == 9

NoSocket == 0
SocketIds == 1..MaxSockets

Min(a, b) == IF a <= b THEN a ELSE b

SmallestIn(S) == CHOOSE x \in S : \A y \in S : x <= y

(* Shallow merge of a partial record into a record: { ...r, ...p } *)
Merge(r, p) == [k \in DOMAIN r |-> IF k \in DOMAIN p THEN p[k] ELSE r[k]]

----------------------------------------------------------------------------
(* The program state as one record *)

W == [ socks |-> socks, ws |-> ws, connectionState |-> connectionState,
       isAuthenticated |-> isAuthenticated,
       reconnectAttempts |-> reconnectAttempts, lastError |-> lastError,
       initialized |-> initialized, keyValid |-> keyValid,
       reconnectTimer |-> reconnectTimer,
       pingTimer |-> pingTimer,
       leakedIntervals |-> leakedIntervals, messageQueue |-> messageQueue,
       wire |-> << >>, authPending |-> authPending,
       relayAuthed |-> relayAuthed, hung |-> hung,
       appSubscribed |-> appSubscribed, msgHandlerOn |-> msgHandlerOn,
       messageHandlers |-> messageHandlers, callbacks |-> << >>,
       pendingLookups |-> pendingLookups, calls |-> calls,
       relayLookups |-> relayLookups, pendingRequests |-> pendingRequests,
       createResults |-> << >>, errorLog |-> << >>,
       directoryKey |-> directoryKey, x25519PrivateKey |-> x25519PrivateKey,
       exchange |-> exchange, envelope |-> envelope,
       now |-> now, awaitingKey |-> awaitingKey, paying |-> paying,
       savingUsername |-> savingUsername, scheduledDelay |-> scheduledDelay,
       autoAttempts |-> autoAttempts,
       userDisconnected |-> userDisconnected, authRejected |-> authRejected,
       overtaken |-> overtaken, transfers |-> transfers ]

(* WebSocket objects are told apart by their position in socks only, so the *)
(* positions are kept in one order: sorted by readyState, current socket,   *)
(* the relay's acceptance and unanswered auth frames.                      *)
Rank(readyState) ==
    CASE readyState = "OPEN" -> 0
      [] readyState = "CONNECTING" -> 1
      [] readyState = "CLOSING" -> 2
      [] OTHER -> 3

SocketKey(c, s) ==
    Rank(c.socks[s]) * 100 + (IF c.ws = s THEN 0 ELSE 50)
        + (IF c.relayAuthed[s] THEN 0 ELSE 25) + c.authPending[s]

SocketKeys(c) == [s \in SocketIds |-> SocketKey(c, s)]

(* the position each socket takes in that order *)
SortedPos(key) ==
    [s \in SocketIds |->
        1 + Cardinality({t \in SocketIds : \/ key[t] < key[s]
                                           \/ key[t] = key[s] /\ t < s})]

(* the socket that takes each position *)
SocketAt(pos) == [i \in SocketIds |-> CHOOSE s \in SocketIds : pos[s] = i]

(* the state a step leaves behind; a run ends where a bound would be passed *)
Becomes(result) ==
    \E c \in {result} :
    /\ Len(c.messageQueue) <= MaxQueue
    /\ c.leakedIntervals <= MaxLeaked
    /\ Len(c.pendingRequests) <= MaxLedger
    /\ Len(c.relayLookups) <= MaxCalls
    /\ Len(c.awaitingKey) <= MaxAwaiting
    /\ c.autoAttempts <= MAX_RECONNECT_ATTEMPTS + MaxOver
    /\ \E key \in {SocketKeys(c)} : \E pos \in {SortedPos(key)} :
       \E at \in {SocketAt(pos)} :
          /\ socks' = [i \in SocketIds |-> c.socks[at[i]]]
          /\ authPending' = [i \in SocketIds |-> c.authPending[at[i]]]
          /\ relayAuthed' = [i \in SocketIds |-> c.relayAuthed[at[i]]]
          /\ ws' = IF c.ws = NoSocket THEN NoSocket ELSE pos[c.ws]
          /\ wire' = [i \in 1..Len(c.wire) |->
                        [c.wire[i] EXCEPT !.sock = pos[@]]]
          /\ relayLookups' = [i \in 1..Len(c.relayLookups) |->
                                [c.relayLookups[i] EXCEPT !.sock = pos[@]]]
    /\ connectionState' = c.connectionState
    /\ isAuthenticated' = c.isAuthenticated
    /\ reconnectAttempts' = c.reconnectAttempts
    /\ lastError' = c.lastError
    /\ initialized' = c.initialized
    /\ keyValid' = c.keyValid
    /\ reconnectTimer' = c.reconnectTimer
    /\ pingTimer' = c.pingTimer
    /\ leakedIntervals' = c.leakedIntervals
    /\ messageQueue' = c.messageQueue
    /\ hung' = c.hung
    /\ appSubscribed' = c.appSubscribed
    /\ msgHandlerOn' = c.msgHandlerOn
    /\ messageHandlers' = c.messageHandlers
    /\ callbacks' = c.callbacks
    /\ pendingLookups' = c.pendingLookups
    /\ calls' = c.calls
    /\ pendingRequests' = c.pendingRequests
    /\ createResults' = c.createResults
    /\ errorLog' = c.errorLog
    /\ directoryKey' = c.directoryKey
    /\ x25519PrivateKey' = c.x25519PrivateKey
    /\ exchange' = c.exchange
    /\ envelope' = c.envelope
    /\ now' = c.now
    /\ awaitingKey' = c.awaitingKey
    /\ paying' = c.paying
    /\ savingUsername' = c.savingUsername
    /\ scheduledDelay' = c.scheduledDelay
    /\ autoAttempts' = c.autoAttempts
    /\ userDisconnected' = c.userDisconnected
    /\ authRejected' = c.authRejected
    /\ overtaken' = c.overtaken
    /\ transfers' = c.transfers

----------------------------------------------------------------------------
(* WebSocketClient (core/websocket/client.ts) *)

Msg(t, a) == [type |-> t, arg |-> a]

wsOpen(c) == c.ws # NoSocket /\ c.socks[c.ws] = "OPEN"

(* what the relay keeps of a frame it receives on socket s: an auth frame  *)
(* to answer and, on a socket it has authenticated, a lookup to answer and *)
(* the encryption key of a register frame                                  *)
relayReceives(c, s, message) ==
    CASE message.type = "auth" -> [c EXCEPT !.authPending[s] = @ + 1]
      [] message.type = "register" /\ c.relayAuthed[s] ->
            [c EXCEPT !.directoryKey = message.arg.x25519PublicKey]
      [] message.type = "lookup" /\ c.relayAuthed[s] ->
            [c EXCEPT !.relayLookups = Append(@, [sock |-> s, query |-> message.arg])]
      [] OTHER -> c

(* send(): ws.send when the socket is OPEN, else messageQueue.push.  The    *)
(* catch branch is not reachable: ws.send throws only on a socket that is  *)
(* not OPEN and JSON.stringify does not throw on a ClientMessage.  Each    *)
(* wire entry also records the phase in which it was handed over.          *)
send(c, message) ==
    IF ~wsOpen(c)
    THEN [c EXCEPT !.messageQueue = Append(@, message)]
    ELSE relayReceives(
           [c EXCEPT !.wire = Append(@, [sock |-> c.ws, msg |-> message,
                                         phase |-> c.connectionState,
                                         auth |-> c.isAuthenticated])],
           c.ws, message)

(* registerUser(x25519PublicKey, username); "" stands for no username *)
registerUser(c, x25519PublicKey, username) ==
    send(c, Msg("register", [x25519PublicKey |-> x25519PublicKey,
                             username |-> username]))

updateUsername(c, username, x25519PublicKey) ==
    registerUser(c, x25519PublicKey, username)

(* this.state *)
StateOf(c) ==
    [connectionState |-> c.connectionState, isAuthenticated |-> c.isAuthenticated,
     reconnectAttempts |-> c.reconnectAttempts, lastError |-> c.lastError]

(* App.initializeApp's state subscriber, called with this.state: it        *)
(* registers the profile whenever the state it is given is authenticated.  *)
stateHandler(c) ==
    LET c1 == [c EXCEPT !.callbacks =
                  Append(@, [handler |-> "state", arg |-> StateOf(c)])]
    IN IF c.isAuthenticated
       THEN registerUser(c1, "x25519PublicKeyBase64", "")
       ELSE c1

(* updateState(): merge, then call every state subscriber.  The one        *)
(* subscriber with an effect on this state is App.initializeApp's.         *)
updateState(c, partial) ==
    LET c1 == Merge(c, partial)
    IN IF c1.appSubscribed THEN stateHandler(c1) ELSE c1

(* onStateChange(handler) that adds the handler and does not call it *)
onStateChange_Silent(c) == [c EXCEPT !.appSubscribed = TRUE]

(* onStateChange(handler): stateChangeHandlers.add, handler(this.state) *)
onStateChange(c) == stateHandler([c EXCEPT !.appSubscribed = TRUE])

(* clearTimers(): clearTimeout on a handle whose timer has fired does nothing *)
clearTimers(c) ==
    [c EXCEPT !.reconnectTimer = "null", !.pingTimer = FALSE]

FreeSockets(c) == {s \in SocketIds : c.socks[s] = "CLOSED"}

(* connect(): new WebSocket(RELAY_SERVER_URL) with the four handlers bound *)
(* to the client; the socket that this.ws referred to before is neither    *)
(* closed nor detached.                                                    *)
connect(c) ==
    IF wsOpen(c) THEN c
    ELSE IF ~c.initialized
         THEN [c EXCEPT !.errorLog = Append(@, "Client not initialized")]
    ELSE LET c1 == updateState(c, [connectionState |-> "connecting"])
             s == SmallestIn(FreeSockets(c))
         IN [c1 EXCEPT !.socks[s] = "CONNECTING", !.ws = s]

(* ws.close(1000, ...): the socket starts closing, its close event comes later *)
closeSocket(c, s) ==
    IF c.socks[s] \in {"CONNECTING", "OPEN"}
    THEN [c EXCEPT !.socks[s] = "CLOSING"]
    ELSE c

disconnect(c) ==
    LET c1 == clearTimers(c)
        c2 == [c1 EXCEPT !.reconnectAttempts = MAX_RECONNECT_ATTEMPTS]
        c3 == IF c2.ws # NoSocket
              THEN [closeSocket(c2, c2.ws) EXCEPT !.ws = NoSocket]
              ELSE c2
    IN updateState(c3, [connectionState |-> "disconnected",
                        isAuthenticated |-> FALSE])

(* scheduleReconnect(): Math.min(INITIAL_RECONNECT_DELAY * 2 ** attempts,   *)
(* MAX_RECONNECT_DELAY)                                                    *)
reconnectDelay(attempts) ==
    Min(INITIAL_RECONNECT_DELAY * 2 ^ attempts, MAX_RECONNECT_DELAY)

(* scheduleReconnect(): setTimeout, the handle goes to this.reconnectTimer. *)
(* handleClose clears the timers just before it calls this, so no pending  *)
(* timeout loses its handle there; the other call, in connect()'s catch,   *)
(* needs the WebSocket constructor to throw, which it does only for a      *)
(* malformed URL and RELAY_SERVER_URL is a well-formed constant.           *)
scheduleReconnect(c) ==
    IF c.reconnectAttempts >= MAX_RECONNECT_ATTEMPTS THEN c
    ELSE [c EXCEPT !.reconnectTimer = "live",
                   !.scheduledDelay = reconnectDelay(c.reconnectAttempts)]

(* startPingTimer(): setInterval, the handle overwrites this.pingTimer *)
startPingTimer(c) ==
    [c EXCEPT !.leakedIntervals = IF c.pingTimer THEN @ + 1 ELSE @,
              !.pingTimer = TRUE]

(* flushMessageQueue(): while (queue.length > 0) { send(queue.shift()) }.   *)
(* send() puts the message back when the socket is not OPEN, and nothing   *)
(* in the loop changes the socket, so the loop then never ends.            *)
RECURSIVE flushMessageQueue(_)
flushMessageQueue(c) ==
    IF Len(c.messageQueue) = 0 THEN c
    ELSE LET message == Head(c.messageQueue)
             c1 == send([c EXCEPT !.messageQueue = Tail(@)], message)
         IN IF Len(c1.messageQueue) >= Len(c.messageQueue)
            THEN [c1 EXCEPT !.hung = TRUE]
            ELSE flushMessageQueue(c1)

(* authenticate(): the challenge is signed and the auth frame passed to     *)
(* send(); signMessage of an in-memory ethers Wallet settles before any    *)
(* other event is dispatched.  new ethers.Wallet throws on a key it does   *)
(* not accept, and the catch branch only records the error.                *)
authenticate(c) ==
    IF ~c.initialized THEN c
    ELSE IF ~c.keyValid
    THEN updateState(c, [connectionState |-> "error",
                         lastError |-> "Authentication failed"])
    ELSE send(c, Msg("auth", "signature"))

handleOpen(c) ==
    authenticate(updateState(c, [connectionState |-> "authenticating",
                                 reconnectAttempts |-> 0]))

handleClose(c, code) ==
    LET c1 == [clearTimers(c) EXCEPT !.ws = NoSocket]
        c2 == updateState(c1, [connectionState |-> "disconnected",
                               isAuthenticated |-> FALSE])
    IN IF code # 1000 THEN scheduleReconnect(c2) ELSE c2

handleError(c) ==
    updateState(c, [connectionState |-> "error", lastError |-> "Connection error"])

(* handleMessage, frame auth_success (the frame is then dispatched to the   *)
(* subscribers, none of which acts on it)                                  *)
handleAuthSuccess(c) ==
    flushMessageQueue(
        startPingTimer(
            updateState(c, [connectionState |-> "connected",
                            isAuthenticated |-> TRUE])))

(* handleMessage, frame auth_error *)
handleAuthError(c, error) ==
    disconnect(updateState(c, [connectionState |-> "error",
                               isAuthenticated |-> FALSE,
                               lastError |-> error]))

(* the reconnect timer's callback *)
reconnectCallback(c) ==
    connect(updateState(c, [reconnectAttempts |-> c.reconnectAttempts + 1]))

(* the heartbeat interval's callback *)
pingCallback(c) == send(c, Msg("ping", "timestamp"))

----------------------------------------------------------------------------
(* Directory lookup (core/websocket/messageHandler.ts) *)

Queries == {"@alice", "@bob"}

(* the identity the directory holds for a query *)
AddressOf(q) == IF q = "@alice" THEN "0xA11CE" ELSE "0xB0B"

MapHas(map, q) == \E i \in 1..Len(map) : map[i].query = q

(* Map.set: a key that is present keeps its place *)
MapSet(map, q, k) ==
    IF MapHas(map, q)
    THEN [i \in 1..Len(map) |-> IF map[i].query = q THEN [map[i] EXCEPT !.call = k]
                                ELSE map[i]]
    ELSE Append(map, [query |-> q, call |-> k])

MapDelete(map, q) ==
    LET Keep(e) == e.query # q IN SelectSeq(map, Keep)

MapGet(map, q) == (CHOOSE i \in 1..Len(map) : map[i].query = q)

(* resolve / reject of the promise of call k: a settled promise stays as it is *)
settle(c, k, state, result) ==
    IF c.calls[k].state = "pending"
    THEN [c EXCEPT !.calls[k].state = state, !.calls[k].result = result]
    ELSE c

(* the callback that lookupUser stored for call k; result "" stands for null *)
lookupCallback(c, k, result, error) ==
    LET c1 == [c EXCEPT !.pendingLookups = MapDelete(@, c.calls[k].query)]
    IN IF error # "" THEN settle(c1, k, "rejected", error)
       ELSE IF result # "" THEN settle(c1, k, "resolved", result)
       ELSE settle(c1, k, "rejected", "User not found")

lookupUser(c, query) ==
    LET k == Len(c.calls) + 1
        c1 == [c EXCEPT !.calls = Append(@, [query |-> query, state |-> "pending",
                                             result |-> "", timer |-> "live"]),
                        !.pendingLookups = MapSet(@, query, k)]
    IN send(c1, Msg("lookup", query))

(* the callback of the 10 second timer of call k *)
lookupTimeout(c, k) ==
    IF MapHas(c.pendingLookups, c.calls[k].query)
    THEN settle([c EXCEPT !.pendingLookups = MapDelete(@, c.calls[k].query)],
                k, "rejected", "Lookup timeout")
    ELSE c

(* the first entry of the map receives the payload, whatever its query *)
handleLookupResult(c, payload) ==
    IF Len(c.pendingLookups) = 0 THEN c
    ELSE LET first == c.pendingLookups[1]
             c1 == lookupCallback(c, first.call, payload, "")
         IN [c1 EXCEPT !.pendingLookups = MapDelete(@, first.query)]

handleLookupError(c, query, error) ==
    IF ~MapHas(c.pendingLookups, query) THEN c
    ELSE LET k == c.pendingLookups[MapGet(c.pendingLookups, query)].call
             c1 == lookupCallback(c, k, "", error)
         IN [c1 EXCEPT !.pendingLookups = MapDelete(@, query)]

----------------------------------------------------------------------------
(* Lookup by any identifier (core/websocket/userService.ts).  A query is   *)
(* the sequence of its code units.                                         *)

WhiteSpace ==
    {9, 10, 11, 12, 13, 32, 160, 5760, 8232, 8233, 8239, 8287, 12288, 65279}
        \cup (8192..8202)

(* String.prototype.trim *)
trim(text) ==
    LET kept == {i \in 1..Len(text) : text[i] \notin WhiteSpace}
    IN  IF kept = {} THEN << >>
        ELSE SubSeq(text, SmallestIn(kept),
                    CHOOSE i \in kept : \A j \in kept : j <= i)

startsWith(text, prefix) ==
    Len(text) >= Len(prefix) /\ SubSeq(text, 1, Len(prefix)) = prefix

IsDigit(ch) == ch \in 48..57
IsLetter(ch) == ch \in (65..90) \cup (97..122)

(* /^\d{6}$/ *)
SixDigits(text) == Len(text) = 6 /\ \A i \in 1..6 : IsDigit(text[i])

(* /^[a-zA-Z][a-zA-Z0-9_]{2,19}$/ *)
BareUsername(text) ==
    /\ Len(text) \in 3..20
    /\ IsLetter(text[1])
    /\ \A i \in 2..Len(text) : IsLetter(text[i]) \/ IsDigit(text[i]) \/ text[i] = 95

(* a promise that is rejected without a call of lookupUser *)
throw(c, query, error) ==
    [c EXCEPT !.calls = Append(@, [query |-> query, state |-> "rejected",
                                   result |-> error, timer |-> "none"])]

lookupByUsername(c, username) ==
    lookupUser(c, IF startsWith(username, << 64 >>) THEN username
                  ELSE << 64 >> \o username)

lookupBySixDigitId(c, sixDigitId) ==
    IF ~SixDigits(sixDigitId) THEN throw(c, sixDigitId, "Invalid 6-digit ID format")
    ELSE lookupUser(c, sixDigitId)

lookupByAddress(c, address) ==
    IF ~startsWith(address, << 48, 120 >>) \/ Len(address) # 42
    THEN throw(c, address, "Invalid address format")
    ELSE lookupUser(c, address)

(* lookupAny without the last test, of a username that has no @ *)
lookupAny_WithoutBareUsername(c, query) ==
    LET trimmed == trim(query)
    IN  IF startsWith(trimmed, << 64 >>) THEN lookupByUsername(c, trimmed)
        ELSE IF SixDigits(trimmed) THEN lookupBySixDigitId(c, trimmed)
        ELSE IF startsWith(trimmed, << 48, 120 >>) /\ Len(trimmed) = 42
        THEN lookupByAddress(c, trimmed)
        ELSE throw(c, trimmed, "Invalid identifier format")

lookupAny(c, query) ==
    LET trimmed == trim(query)
    IN  IF startsWith(trimmed, << 64 >>) THEN lookupByUsername(c, trimmed)
        ELSE IF SixDigits(trimmed) THEN lookupBySixDigitId(c, trimmed)
        ELSE IF startsWith(trimmed, << 48, 120 >>) /\ Len(trimmed) = 42
        THEN lookupByAddress(c, trimmed)
        ELSE IF BareUsername(trimmed) THEN lookupByUsername(c, trimmed)
        ELSE throw(c, trimmed, "Invalid identifier format")

----------------------------------------------------------------------------
(* Request store (store) and payment-request service                      *)

RequestIds == 1..MaxRequests

(* clock readings: the first, and the expiry instants of requests made then *)
Times == {k * REQUEST_EXPIRY_MS : k \in 1..(MaxTick + 1)}

addRequest(c, request) == [c EXCEPT !.pendingRequests = Append(@, request)]

updateRequest(c, id, updates) ==
    [c EXCEPT !.pendingRequests =
        [i \in 1..Len(@) |-> IF @[i].id = id THEN Merge(@[i], updates) ELSE @[i]]]

(* createPaymentRequest from the point where lookupAny has resolved; the    *)
(* value of wsClient.send() is not read, the call returns success          *)
createPaymentRequest(c, requestId, recipient, amount) ==
    LET createdAt == c.now
        expiresAt == createdAt + REQUEST_EXPIRY_MS
        sent == wsOpen(c)
        c1 == send(c, Msg("payment_request", requestId))
        c2 == addRequest(c1, [id |-> requestId, direction |-> "sent",
                              counterpartyAddress |-> recipient,
                              amount |-> amount,
                              status |-> "pending", expiresAt |-> expiresAt,
                              createdAt |-> createdAt])
    IN [c2 EXCEPT !.createResults =
           Append(@, [success |-> TRUE, error |-> "", request |-> requestId,
                      sent |-> sent])]

(* cancelling by removeRequest instead of updateRequest *)
cancelRequest_Removing(c, requestId) ==
    LET Others(req) == req.id # requestId
    IN  [send(c, Msg("cancel_request", requestId))
            EXCEPT !.pendingRequests = SelectSeq(@, Others)]

cancelRequest(c, requestId) ==
    updateRequest(send(c, Msg("cancel_request", requestId)),
                  requestId, [status |-> "cancelled"])

(* marking that takes back the mark of a request already paid *)
markRequestPaid_Toggling(c, requestId) ==
    [c EXCEPT !.pendingRequests =
        [i \in 1..Len(@) |->
            IF @[i].id # requestId THEN @[i]
            ELSE [@[i] EXCEPT !.status = IF @ = "paid" THEN "pending" ELSE "paid"]]]

markRequestPaid(c, requestId) == updateRequest(c, requestId, [status |-> "paid"])

RECURSIVE updateEach(_, _, _)
updateEach(c, reqs, updates) ==
    IF Len(reqs) = 0 THEN c
    ELSE updateEach(updateRequest(c, Head(reqs).id, updates), Tail(reqs), updates)

expireOldRequests(c) ==
    LET Old(req) == req.status = "pending" /\ req.expiresAt < c.now
    IN updateEach(c, SelectSeq(c.pendingRequests, Old), [status |-> "expired"])

(* getTimeRemaining(request).expired *)
getTimeRemainingExpired(c, request) == request.expiresAt - c.now <= 0

(* a handler that adds the entry without having opened the envelope *)
handleIncomingPaymentRequest_Unchecked(c, frame) ==
    addRequest(c, [id |-> frame.payload.requestId, direction |-> "received",
                   counterpartyAddress |-> frame.payload.senderAddress,
                   amount |-> frame.payload.amount,
                   status |-> "pending",
                   expiresAt |-> frame.payload.expiresAt,
                   createdAt |-> frame.payload.createdAt])

(* handleIncomingPaymentRequest after the keychain read: JSON.parse and     *)
(* decryptFromTransmission throw on an envelope that does not parse or     *)
(* does not open, and the catch logs the error; else addRequest.  The      *)
(* frame's payload field stands for the decrypted payload.                 *)
handleIncomingPaymentRequest(c, frame) ==
    IF ~frame.decrypts
    THEN [c EXCEPT !.errorLog =
             Append(@, "Failed to process payment request")]
    ELSE addRequest(c, [id |-> frame.payload.requestId, direction |-> "received",
                        counterpartyAddress |-> frame.payload.senderAddress,
                        amount |-> frame.payload.amount,
                        status |-> "pending",
                        expiresAt |-> frame.payload.expiresAt,
                        createdAt |-> frame.payload.createdAt])

handleRequestCancelled(c, requestId) ==
    updateRequest(c, requestId, [status |-> "cancelled"])

handleRequestPaid(c, requestId) ==
    updateRequest(c, requestId, [status |-> "paid"])

(* the payment_request frames of requestId whose handler is suspended at   *)
(* await getX25519PrivateKey()                                             *)
Awaiting(c, requestId) ==
    {k \in 1..Len(c.awaitingKey) :
        c.awaitingKey[k].decrypts /\ c.awaitingKey[k].payload.requestId = requestId}

(* history only: a later frame about requestId is handled before the       *)
(* suspended handler of its payment_request resumes                        *)
noteOvertaking(c, requestId) ==
    IF Awaiting(c, requestId) = {} THEN c
    ELSE [c EXCEPT !.overtaken = @ \cup {requestId}]

(* messageHandler.handleMessage: the switch on the frame type.  A          *)
(* payment_request frame first waits for the keychain.                     *)
handleMessage(c, frame) ==
    CASE frame.type = "lookup_result" -> handleLookupResult(c, frame.payload)
      [] frame.type = "lookup_error" ->
            handleLookupError(c, frame.payload.query, frame.payload.error)
      [] frame.type = "payment_request" ->
            [c EXCEPT !.awaitingKey = Append(@, frame)]
      [] frame.type = "request_cancelled" ->
            handleRequestCancelled(noteOvertaking(c, frame.payload), frame.payload)
      [] frame.type = "request_paid" ->
            handleRequestPaid(noteOvertaking(c, frame.payload), frame.payload)
      [] OTHER -> c

Frame(t, p) == [type |-> t, payload |-> p]

(* messageHandlers.forEach for the subscribers other than messageHandler:  *)
(* each is called inside try/catch, and what one throws is logged          *)
RECURSIVE callEach(_, _, _)
callEach(c, handlers, message) ==
    IF Len(handlers) = 0 THEN c
    ELSE LET called == [c EXCEPT !.callbacks =
                           Append(@, [handler |-> Head(handlers), arg |-> message])]
             after == IF Head(handlers) = "throwing"
                      THEN [called EXCEPT !.errorLog = Append(@, "Handler error")]
                      ELSE called
         IN  callEach(after, Tail(handlers), message)

(* WebSocketClient.handleMessage for a frame that is neither an auth reply *)
(* nor a pong: every subscriber is called                                  *)
dispatch(c, frame) ==
    callEach(IF c.msgHandlerOn THEN handleMessage(c, frame) ELSE c,
             c.messageHandlers, frame)

(* handleMessage that hands every frame it has parsed to the subscribers *)
onmessage_ForwardingPong(c, data) ==
    LET received == [c EXCEPT !.callbacks =
                        Append(@, [handler |-> "onmessage", arg |-> data])]
    IN  IF ~data.valid
        THEN [received EXCEPT !.errorLog = Append(@, "Message parse error")]
        ELSE callEach(received, received.messageHandlers, Frame(data.type, 1))

(* WebSocketClient.handleMessage, bound to ws.onmessage, on event.data.    *)
(* data.valid: JSON.parse returns an object; data.type: its type ("" =     *)
(* none); data.hasPayload: it has a payload.  A payload that is missing    *)
(* makes the auth_error branch throw into the catch block, and makes the   *)
(* promise of messageHandler.handleMessage reject with nothing done.       *)
onmessage(c, data) ==
    LET received == [c EXCEPT !.callbacks =
                        Append(@, [handler |-> "onmessage", arg |-> data])]
        message == Frame(data.type, 1)
        authed == IF data.type = "auth_success"
                  THEN handleAuthSuccess(received) ELSE received
    IN  IF ~data.valid
        THEN [received EXCEPT !.errorLog = Append(@, "Message parse error")]
        ELSE IF data.type = "auth_error"
        THEN IF data.hasPayload
             THEN handleAuthError(received, "Invalid signature")
             ELSE [received EXCEPT !.errorLog = Append(@, "Message parse error")]
        ELSE IF authed.hung \/ data.type = "pong" THEN authed
        ELSE IF data.hasPayload THEN dispatch(authed, message)
        ELSE callEach(authed, authed.messageHandlers, message)

(* what the handler can read of an envelope that JSON.parse or             *)
(* decryptFromTransmission rejects: nothing                                *)
Unreadable ==
    [requestId |-> 0, amount |-> "", senderAddress |-> "", expiresAt |-> 0,
     createdAt |-> 0]

----------------------------------------------------------------------------
(* The encryption envelope (core/crypto/e2ee).  A Uint8Array is a sequence *)
(* of bytes 0..255 and a string is the sequence of its code points.  The   *)
(* library primitives are scaled down: the Diffie-Hellman group is the     *)
(* multiplicative group modulo Prime with keys of one byte, the derived    *)
(* key is one byte, and the authenticated cipher adds a keyed stream to    *)
(* the plaintext and appends a tag that decryption verifies.  The tag is   *)
(* ideal: it is one to one in the key, the nonce and the ciphertext body,  *)
(* so that it verifies for exactly what was sealed.  A value that a        *)
(* JavaScript function returns or throws is [ok |-> TRUE, v |-> value] or  *)
(* Thrown.                                                                 *)

Thrown == [ok |-> FALSE, v |-> << >>]
Returned(value) == [ok |-> TRUE, v |-> value]

RECURSIVE ModPow(_, _, _)
ModPow(b, e, m) == IF e = 0 THEN 1 % m ELSE (b * ModPow(b, e - 1, m)) % m

(* x25519.getPublicKey, x25519.getSharedSecret.  A public key is the      *)
(* encoding of a coordinate: X25519 reads it without its most significant  *)
(* bit (RFC 7748, section 5) and reduces it modulo the prime of the field. *)
getPublicKey(privateKey) == << ModPow(BasePoint, privateKey[1], Prime) >>
getSharedSecret(privateKey, publicKey) ==
    << ModPow((publicKey[1] % 128) % Prime, privateKey[1], Prime) >>

(* hkdf(sha256, sharedSecret, undefined, HKDF_INFO, 32) *)
hkdf(sharedSecret, info) ==
    << (sharedSecret[1] * 7 + (IF info = HKDF_INFO THEN 1 ELSE 2)) % 256 >>

(* the segments lo..hi of a sequence of sequences, joined *)
RECURSIVE JoinRange(_, _, _)
JoinRange(segments, lo, hi) ==
    IF lo > hi THEN << >>
    ELSE IF lo = hi THEN segments[lo]
    ELSE LET mid == (lo + hi) \div 2
         IN  JoinRange(segments, lo, mid) \o JoinRange(segments, mid + 1, hi)

Join(segments) == JoinRange(segments, 1, Len(segments))

gcmStream(aesKey, nonce, i) == (aesKey[1] * 5 + nonce[1] * 3 + i) % 256
gcmTag(aesKey, nonce, body) ==
    << (aesKey[1] * 11 + 1) % 256 >>
    \o [i \in 1..Len(nonce) |-> (nonce[i] + aesKey[1] + i) % 256]
    \o [i \in 1..Len(body) |-> (body[i] + aesKey[1] * 3 + i) % 256]

(* gcm(aesKey, nonce).encrypt(plaintext): ciphertext followed by the tag *)
gcmEncrypt(aesKey, nonce, plaintext) ==
    LET body == [i \in 1..Len(plaintext) |->
                    (plaintext[i] + gcmStream(aesKey, nonce, i)) % 256]
    IN  body \o gcmTag(aesKey, nonce, body)

(* gcm(aesKey, nonce).decrypt(ciphertext): throws unless the tag verifies *)
gcmDecrypt(aesKey, nonce, ciphertext) ==
    LET rest == Len(ciphertext) - 1 - Len(nonce)
        body == SubSeq(ciphertext, 1, rest \div 2)
    IN  IF rest < 0 \/ rest % 2 # 0 THEN Thrown
        ELSE IF SubSeq(ciphertext, (rest \div 2) + 1, Len(ciphertext))
                   # gcmTag(aesKey, nonce, body)
             THEN Thrown
             ELSE Returned([i \in 1..Len(body) |->
                     (body[i] + 256 - gcmStream(aesKey, nonce, i)) % 256])

(* encrypt with the same key pair and the same nonce in every call *)
encrypt_StaticRandomness(plaintext, recipientPublicKey, ephemeralPrivateKey, nonce) ==
    LET aesKey == hkdf(getSharedSecret(<< 1 >>, recipientPublicKey), HKDF_INFO)
        zero == [i \in 1..NONCE_LENGTH |-> 0]
    IN  [ephemeralPublicKey |-> getPublicKey(<< 1 >>), nonce |-> zero,
         ciphertext |-> gcmEncrypt(aesKey, zero, plaintext)]

(* encrypt; the two randomBytes draws are the last two arguments *)
encrypt(plaintext, recipientPublicKey, ephemeralPrivateKey, nonce) ==
    LET ephemeralPublicKey == getPublicKey(ephemeralPrivateKey)
        sharedSecret == getSharedSecret(ephemeralPrivateKey, recipientPublicKey)
        aesKey == hkdf(sharedSecret, HKDF_INFO)
        ciphertext == gcmEncrypt(aesKey, nonce, plaintext)
    IN  [ephemeralPublicKey |-> ephemeralPublicKey,
         nonce |-> nonce,
         ciphertext |-> ciphertext]

(* a decrypt that derives the key from the private key alone *)
decrypt_WithoutKeyAgreement(payload, recipientPrivateKey) ==
    gcmDecrypt(hkdf(recipientPrivateKey, HKDF_INFO), payload.nonce,
               payload.ciphertext)

decrypt(payload, recipientPrivateKey) ==
    LET sharedSecret ==
            getSharedSecret(recipientPrivateKey, payload.ephemeralPublicKey)
        aesKey == hkdf(sharedSecret, HKDF_INFO)
    IN  gcmDecrypt(aesKey, payload.nonce, payload.ciphertext)

(* new TextEncoder().encode(message): UTF-8 *)
TextEncode(message) ==
    Join([i \in 1..Len(message) |->
        LET cp == message[i]
        IN  IF cp < 128 THEN << cp >>
            ELSE IF cp < 2048
                 THEN << 192 + (cp \div 64), 128 + (cp % 64) >>
                 ELSE << 224 + (cp \div 4096),
                         128 + ((cp \div 64) % 64), 128 + (cp % 64) >>])

IsContinuation(bytes, i) ==
    i >= 1 /\ i <= Len(bytes) /\ bytes[i] >= 128 /\ bytes[i] < 192

(* bytes[i] starts a well-formed sequence of two, of three bytes *)
StartsTwo(bytes, i) ==
    /\ i >= 1 /\ i <= Len(bytes)
    /\ bytes[i] >= 194 /\ bytes[i] < 224
    /\ IsContinuation(bytes, i + 1)

StartsThree(bytes, i) ==
    /\ i >= 1 /\ i <= Len(bytes)
    /\ bytes[i] >= 224 /\ bytes[i] < 240
    /\ IsContinuation(bytes, i + 1) /\ IsContinuation(bytes, i + 2)
    /\ (bytes[i] - 224) * 4096 + (bytes[i + 1] - 128) * 64 >= 2048

(* new TextDecoder().decode(plaintext): a byte that belongs to no          *)
(* well-formed sequence decodes to U+FFFD                                  *)
TextDecode(bytes) ==
    Join([i \in 1..Len(bytes) |->
        LET b == bytes[i]
        IN  IF b < 128 THEN << b >>
            ELSE IF StartsTwo(bytes, i)
                 THEN << (b - 192) * 64 + (bytes[i + 1] - 128) >>
            ELSE IF StartsThree(bytes, i)
                 THEN << (b - 224) * 4096 + (bytes[i + 1] - 128) * 64
                            + (bytes[i + 2] - 128) >>
            ELSE IF \/ StartsTwo(bytes, i - 1) \/ StartsThree(bytes, i - 1)
                    \/ StartsThree(bytes, i - 2)
                 THEN << >>
            ELSE << 65533 >>])

(* A JSON value: a string, a number, or undefined.  An object is the       *)
(* function from its keys to what reading the property returns, so a       *)
(* property that is absent and one that holds undefined are the same.      *)
Undefined == [t |-> "undefined", v |-> << >>]
String(codePoints) == [t |-> "string", v |-> codePoints]
Number(n) == [t |-> "number", v |-> << n >>]

PayloadKeys == << "requestId", "amount", "currency", "memo", "senderAddress", "senderUsername", "createdAt", "expiresAt" >>
EnvelopeKeys == << "ephemeralPublicKey", "nonce", "ciphertext" >>

KeyText ==
    [requestId |-> << 114, 101, 113, 117, 101, 115, 116, 73, 100 >>,
     amount |-> << 97, 109, 111, 117, 110, 116 >>,
     currency |-> << 99, 117, 114, 114, 101, 110, 99, 121 >>,
     memo |-> << 109, 101, 109, 111 >>,
     senderAddress |-> << 115, 101, 110, 100, 101, 114, 65, 100, 100, 114, 101, 115, 115 >>,
     senderUsername |-> << 115, 101, 110, 100, 101, 114, 85, 115, 101, 114, 110, 97, 109, 101 >>,
     createdAt |-> << 99, 114, 101, 97, 116, 101, 100, 65, 116 >>,
     expiresAt |-> << 101, 120, 112, 105, 114, 101, 115, 65, 116 >>]
    @@
    [ephemeralPublicKey |-> << 101, 112, 104, 101, 109, 101, 114, 97, 108, 80, 117, 98, 108, 105, 99, 75, 101, 121 >>,
     nonce |-> << 110, 111, 110, 99, 101 >>,
     ciphertext |-> << 99, 105, 112, 104, 101, 114, 116, 101, 120, 116 >>]

Range(seq) == {seq[i] : i \in 1..Len(seq)}

RECURSIVE Digits(_)
Digits(n) ==
    IF n < 10 THEN << 48 + n >> ELSE Append(Digits(n \div 10), 48 + (n % 10))

(* the quoted form of a string: the quote and the backslash are escaped *)
Escaped(codePoints) ==
    Join([i \in 1..Len(codePoints) |->
        IF codePoints[i] \in {34, 92}
        THEN << 92, codePoints[i] >> ELSE << codePoints[i] >>])

Quoted(codePoints) == << 34 >> \o Escaped(codePoints) \o << 34 >>

RECURSIVE Members(_, _, _)
Members(data, keys, first) ==
    IF keys = << >> THEN << >>
    ELSE IF data[keys[1]].t = "undefined"
         THEN Members(data, Tail(keys), first)
         ELSE (IF first THEN << >> ELSE << 44 >>)
              \o Quoted(KeyText[keys[1]]) \o << 58 >>
              \o (IF data[keys[1]].t = "string"
                  THEN Quoted(data[keys[1]].v)
                  ELSE Digits(data[keys[1]].v[1]))
              \o Members(data, Tail(keys), FALSE)

(* JSON.stringify(data) of an object with the properties keys, in order;   *)
(* a property that holds undefined is left out                             *)
JSONstringify(data, keys) == << 123 >> \o Members(data, keys, TRUE) \o << 125 >>

(* the backslashes that stand in a row right before text[i] *)
BackslashRun(text, i) ==
    IF i = 1 \/ text[i - 1] # 92 THEN 0
    ELSE Cardinality({k \in 1..(i - 1) :
                         \A m \in (i - k)..(i - 1) : text[m] = 92})

(* the string literal whose first character is text[i]: it ends at the     *)
(* first quote that no backslash escapes; only the quote and the backslash *)
(* may be escaped, and no control character may occur                      *)
ScanString(text, i, acc) ==
    LET closing == {j \in i..Len(text) :
                       text[j] = 34 /\ BackslashRun(text, j) % 2 = 0}
        end == CHOOSE j \in closing : \A y \in closing : j <= y
        escapes(m) == text[m] = 92 /\ BackslashRun(text, m) % 2 = 0
        escaped(m) == BackslashRun(text, m) % 2 = 1
    IN  IF closing = {} THEN [ok |-> FALSE, v |-> << >>, next |-> i]
        ELSE IF \E m \in i..(end - 1) :
                   \/ text[m] < 32
                   \/ escaped(m) /\ text[m] \notin {34, 92}
             THEN [ok |-> FALSE, v |-> << >>, next |-> i]
        ELSE [ok |-> TRUE,
              v |-> acc \o Join([k \in 1..(end - i) |->
                        IF escapes(i + k - 1) THEN << >>
                        ELSE << text[i + k - 1] >>]),
              next |-> end + 1]

RECURSIVE ScanNumber(_, _, _)
ScanNumber(text, i, acc) ==
    IF i <= Len(text) /\ text[i] >= 48 /\ text[i] <= 57
    THEN ScanNumber(text, i + 1, acc * 10 + (text[i] - 48))
    ELSE [ok |-> TRUE, v |-> acc, next |-> i]

IsDigitAt(text, i) == i <= Len(text) /\ text[i] >= 48 /\ text[i] <= 57

(* the members of an object from text[i] on; data holds those read so far *)
RECURSIVE ScanMembers(_, _, _, _)
ScanMembers(text, i, data, keys) ==
    IF ~(i <= Len(text) /\ text[i] = 34) THEN Thrown
    ELSE LET key == ScanString(text, i + 1, << >>)
         IN  IF ~key.ok \/ ~(key.next <= Len(text) /\ text[key.next] = 58)
             THEN Thrown
             ELSE LET at == key.next + 1
                      isString == at <= Len(text) /\ text[at] = 34
                      str == ScanString(text, at + 1, << >>)
                      num == ScanNumber(text, at, 0)
                      ok == IF isString THEN str.ok ELSE IsDigitAt(text, at)
                      value == IF isString THEN String(str.v) ELSE Number(num.v)
                      next == IF isString THEN str.next ELSE num.next
                      named == {k \in Range(keys) : KeyText[k] = key.v}
                      read == [k \in DOMAIN data |->
                                  IF k \in named THEN value ELSE data[k]]
                 IN  IF ~ok \/ next > Len(text) THEN Thrown
                     ELSE IF text[next] = 125
                          THEN IF next = Len(text) THEN Returned(read) ELSE Thrown
                     ELSE IF text[next] = 44
                          THEN ScanMembers(text, next + 1, read, keys)
                     ELSE Thrown

(* JSON.parse(text), read through the properties keys: throws a            *)
(* SyntaxError unless text is an object of strings and numbers             *)
JSONparse(text, keys) ==
    LET empty == [k \in Range(keys) |-> Undefined]
    IN  IF Len(text) < 2 \/ text[1] # 123 THEN Thrown
        ELSE IF text[2] = 125
             THEN IF Len(text) = 2 THEN Returned(empty) ELSE Thrown
        ELSE ScanMembers(text, 2, empty, keys)

encryptString(message, recipientPublicKey, ephemeralPrivateKey, nonce) ==
    encrypt(TextEncode(message), recipientPublicKey, ephemeralPrivateKey, nonce)

decryptString(payload, recipientPrivateKey) ==
    LET plaintext == decrypt(payload, recipientPrivateKey)
    IN  IF plaintext.ok THEN Returned(TextDecode(plaintext.v)) ELSE Thrown

encryptJSON(data, recipientPublicKey, ephemeralPrivateKey, nonce) ==
    encryptString(JSONstringify(data, PayloadKeys), recipientPublicKey,
                  ephemeralPrivateKey, nonce)

decryptJSON(payload, recipientPrivateKey) ==
    LET jsonString == decryptString(payload, recipientPrivateKey)
    IN  IF jsonString.ok THEN JSONparse(jsonString.v, PayloadKeys) ELSE Thrown

(* the base64 alphabet: the character of a digit and the digit of a        *)
(* character (64 for a character outside the alphabet)                     *)
Base64Char(d) ==
    IF d < 26 THEN 65 + d
    ELSE IF d < 52 THEN 97 + (d - 26)
    ELSE IF d < 62 THEN 48 + (d - 52)
    ELSE IF d = 62 THEN 43 ELSE 47

Base64Digit(ch) ==
    IF ch >= 65 /\ ch <= 90 THEN ch - 65
    ELSE IF ch >= 97 /\ ch <= 122 THEN ch - 97 + 26
    ELSE IF ch >= 48 /\ ch <= 57 THEN ch - 48 + 52
    ELSE IF ch = 43 THEN 62
    ELSE IF ch = 47 THEN 63 ELSE 64

(* uint8ArrayToBase64: btoa of the bytes, three bytes to four characters,  *)
(* the last group padded with "="                                          *)
uint8ArrayToBase64(bytes) ==
    Join([g \in 1..((Len(bytes) + 2) \div 3) |->
        LET i == 3 * g - 2
            b1 == bytes[i]
            b2 == IF i + 1 <= Len(bytes) THEN bytes[i + 1] ELSE 0
            b3 == IF i + 2 <= Len(bytes) THEN bytes[i + 2] ELSE 0
        IN  << Base64Char(b1 \div 4),
               Base64Char((b1 % 4) * 16 + (b2 \div 16)),
               IF i + 1 <= Len(bytes)
               THEN Base64Char((b2 % 16) * 4 + (b3 \div 64)) ELSE 61,
               IF i + 2 <= Len(bytes) THEN Base64Char(b3 % 64) ELSE 61 >>])

(* the bytes of the groups of four characters of base64 *)
Base64Groups(base64) ==
    Join([g \in 1..(Len(base64) \div 4) |->
        LET d == [k \in 1..4 |-> Base64Digit(base64[4 * g - 4 + k])]
            b1 == d[1] * 4 + (d[2] \div 16)
            b2 == (d[2] % 16) * 16 + (d[3] \div 4)
            b3 == (d[3] % 4) * 64 + d[4]
        IN  IF base64[4 * g - 1] = 61 THEN << b1 >>
            ELSE IF base64[4 * g] = 61 THEN << b1, b2 >>
            ELSE << b1, b2, b3 >>])

(* base64ToUint8Array: atob throws on text that is not base64 *)
base64ToUint8Array(base64) ==
    IF \/ Len(base64) % 4 # 0
       \/ \E i \in 1..Len(base64) :
             /\ Base64Digit(base64[i]) = 64
             /\ ~(base64[i] = 61 /\ i > Len(base64) - 2
                    /\ (i = Len(base64) \/ base64[Len(base64)] = 61))
    THEN Thrown
    ELSE Returned(Base64Groups(base64))

serializePayload(payload) ==
    [ephemeralPublicKey |-> uint8ArrayToBase64(payload.ephemeralPublicKey),
     nonce |-> uint8ArrayToBase64(payload.nonce),
     ciphertext |-> uint8ArrayToBase64(payload.ciphertext)]

deserializePayload(serialized) ==
    LET ephemeralPublicKey == base64ToUint8Array(serialized.ephemeralPublicKey)
        nonce == base64ToUint8Array(serialized.nonce)
        ciphertext == base64ToUint8Array(serialized.ciphertext)
    IN  IF ephemeralPublicKey.ok /\ nonce.ok /\ ciphertext.ok
        THEN Returned([ephemeralPublicKey |-> ephemeralPublicKey.v,
                       nonce |-> nonce.v,
                       ciphertext |-> ciphertext.v])
        ELSE Thrown

encryptForTransmission(data, recipientPublicKey, ephemeralPrivateKey, nonce) ==
    serializePayload(encryptJSON(data, recipientPublicKey,
                                 ephemeralPrivateKey, nonce))

decryptFromTransmission(serialized, recipientPrivateKey) ==
    LET payload == deserializePayload(serialized)
    IN  IF payload.ok THEN decryptJSON(payload.v, recipientPrivateKey) ELSE Thrown

(* The payment request between two devices *)

(* the text the relay's directory holds: what the keychain of this device  *)
(* holds under the name the register frame was built from                  *)
KeychainText(name, privateKey) ==
    IF name = "x25519PrivateKeyBase64"
    THEN uint8ArrayToBase64(privateKey)
    ELSE uint8ArrayToBase64(getPublicKey(privateKey))

(* createPaymentRequest on the peer from the point where lookupAny has     *)
(* resolved to a profile with the key x25519PublicKey: the frame handed to *)
(* the relay and the entry of the peer's store.  x is the peer and random  *)
(* holds the two randomBytes draws of encrypt.                             *)
createPaymentRequestAtPeer(x, x25519PublicKey, params, createdAt, random) ==
    LET amount == params.amount
        memo == params.memo
        ephemeralPrivateKey == random.ephemeralPrivateKey
        nonce == random.nonce
        requestId == String(<< 114 >> \o Digits(Len(x.pendingRequests) + 1))
        expiresAt == createdAt + REQUEST_EXPIRY_MS
        payload == [requestId |-> requestId,
                    amount |-> amount,
                    currency |-> String(<< 100, 85, 83, 68, 84 >>),
                    memo |-> memo,
                    senderAddress |-> String(<< 48, 120, 66, 48, 66 >>),
                    senderUsername |-> Undefined,
                    createdAt |-> Number(createdAt),
                    expiresAt |-> Number(expiresAt)]
        recipientPublicKey == base64ToUint8Array(x25519PublicKey)
        encrypted == encryptForTransmission(payload, recipientPublicKey.v,
                                            ephemeralPrivateKey, nonce)
        frame == [type |-> "payment_request",
                  requestId |-> requestId,
                  encrypted |-> JSONstringify(
                      [k \in Range(EnvelopeKeys) |-> String(encrypted[k])],
                      EnvelopeKeys),
                  expiresAt |-> expiresAt]
        request == [id |-> requestId, direction |-> "sent",
                    amount |-> amount, memo |-> memo, status |-> "pending",
                    expiresAt |-> Number(expiresAt),
                    createdAt |-> Number(createdAt)]
    IN  IF ~recipientPublicKey.ok THEN x
        ELSE [x EXCEPT !.frames = Append(@, frame),
                       !.pendingRequests = Append(@, request)]

(* what handleIncomingPaymentRequest reads of a frame the relay delivers:  *)
(* decryptFromTransmission(JSON.parse(message.payload.encrypted),          *)
(* privateKey), which returns the payload or throws                        *)
Opened(frame, privateKey) ==
    LET parsed == JSONparse(frame.encrypted, EnvelopeKeys)
        decrypted ==
            IF parsed.ok /\ \A k \in Range(EnvelopeKeys) : parsed.v[k].t = "string"
            THEN decryptFromTransmission(
                     [k \in Range(EnvelopeKeys) |-> parsed.v[k].v], privateKey)
            ELSE Thrown
    IN  [type |-> "payment_request",
         decrypts |-> decrypted.ok,
         payload |-> IF decrypted.ok THEN decrypted.v ELSE Unreadable]

----------------------------------------------------------------------------
InitProgram ==
    /\ socks = [s \in SocketIds |-> "CLOSED"]
    /\ ws = NoSocket
    /\ connectionState = "disconnected"
    /\ isAuthenticated = FALSE
    /\ reconnectAttempts = 0
    /\ lastError = ""
    /\ initialized = FALSE
    /\ keyValid = TRUE
    /\ reconnectTimer = "null"
    /\ pingTimer = FALSE
    /\ leakedIntervals = 0
    /\ messageQueue = << >>
    /\ wire = << >>
    /\ authPending = [s \in SocketIds |-> 0]
    /\ relayAuthed = [s \in SocketIds |-> FALSE]
    /\ hung = FALSE
    /\ appSubscribed = FALSE
    /\ messageHandlers = << >>
    /\ callbacks = << >>
    /\ msgHandlerOn = FALSE
    /\ pendingLookups = << >>
    /\ calls = << >>
    /\ relayLookups = << >>
    /\ pendingRequests = << >>
    /\ createResults = << >>
    /\ errorLog = << >>
    /\ directoryKey = ""
    /\ now = REQUEST_EXPIRY_MS
    /\ awaitingKey = << >>
    /\ paying = {}
    /\ savingUsername = FALSE
    /\ scheduledDelay = 0
    /\ autoAttempts = 0
    /\ userDisconnected = FALSE
    /\ authRejected = FALSE
    /\ overtaken = {}
    /\ transfers = {}

NoExchange == [pendingRequests |-> << >>, frames |-> << >>]

NoEnvelope ==
    [kind |-> "none", plaintext |-> << >>, data |-> << >>, sealed |-> << >>,
     presented |-> << >>, key |-> << >>, opened |-> << >>,
     drawn |-> {}, returned |-> << >>]

Init ==
    /\ InitProgram
    /\ x25519PrivateKey = << 1 >>
    /\ exchange = NoExchange
    /\ envelope = NoEnvelope

----------------------------------------------------------------------------
(* Calls made by the application on the connection *)


Initialize ==
    /\ ~hung
    /\ ~initialized
    /\ Becomes([W EXCEPT !.initialized = TRUE])

(* initialize() with a private key that ethers.Wallet rejects: the client  *)
(* stores the string as it is                                              *)
InitializeInvalidKey ==
    /\ ~hung
    /\ ~initialized
    /\ Becomes([W EXCEPT !.initialized = TRUE, !.keyValid = FALSE])

(* whether connect() would construct a WebSocket *)
connectOpens(c) == ~wsOpen(c) /\ c.initialized

(* connect() called by the application (App.initializeApp, useWebSocket) *)
Connect ==
    /\ ~hung
    /\ connectOpens(W) => FreeSockets(W) # {}
    /\ Becomes([connect(W) EXCEPT !.userDisconnected = FALSE,
                                 !.authRejected = FALSE,
                                 !.scheduledDelay = 0, !.autoAttempts = 0])

(* disconnect() called by the application *)
Disconnect ==
    /\ ~hung
    /\ Becomes([disconnect(W) EXCEPT !.userDisconnected = TRUE,
                                    !.scheduledDelay = 0, !.autoAttempts = 0])

(* send() called by the application with a frame of its own *)
SendMessage ==
    /\ ~hung
    /\ Becomes(send(W, Msg("cancel_request", 1)))

(* App.initializeApp: wsClient.onStateChange(state => ...), which calls the *)
(* handler at once with the current state                                  *)
SubscribeApp ==
    /\ ~hung
    /\ initialized
    /\ ~appSubscribed
    /\ Becomes(onStateChange(W))

----------------------------------------------------------------------------
(* Events of the sockets and the timers *)

SocketOpen(s) ==
    /\ ~hung
    /\ socks[s] = "CONNECTING"
    /\ Becomes(handleOpen([W EXCEPT !.socks[s] = "OPEN"]))

CloseCodes == {1000, 1006}

(* socket s becomes CLOSED; the relay drops what it held for that socket *)
socketGone(c, s) ==
    LET Other(e) == e.sock # s
    IN [c EXCEPT !.socks[s] = "CLOSED", !.authPending[s] = 0,
                 !.relayAuthed[s] = FALSE,
                 !.relayLookups = SelectSeq(@, Other)]

(* the close event of a socket; the relay forgets the socket *)
SocketClose(s) ==
    /\ ~hung
    /\ socks[s] \in {"CONNECTING", "OPEN", "CLOSING"}
    /\ \E code \in CloseCodes :
          Becomes(handleClose([socketGone(W, s) EXCEPT !.scheduledDelay =
                                  IF code = 1000 THEN 0 ELSE @], code))

(* a socket fails: the runtime sets it CLOSED and dispatches its error     *)
(* event and then its close event, code 1006, in the same task             *)
SocketFail(s) ==
    /\ ~hung
    /\ socks[s] \in {"CONNECTING", "OPEN", "CLOSING"}
    /\ Becomes(handleClose(handleError(socketGone(W, s)), 1006))

RecvAuthSuccess(s) ==
    /\ ~hung
    /\ socks[s] = "OPEN"
    /\ authPending[s] > 0
    /\ Becomes(handleAuthSuccess([W EXCEPT !.authPending[s] = @ - 1,
                                           !.relayAuthed[s] = TRUE,
                                           !.scheduledDelay = 0,
                                           !.autoAttempts = 0]))

RecvAuthError(s) ==
    /\ ~hung
    /\ socks[s] = "OPEN"
    /\ authPending[s] > 0
    /\ Becomes([handleAuthError([W EXCEPT !.authPending[s] = @ - 1],
                                "Invalid signature")
                EXCEPT !.authRejected = TRUE, !.scheduledDelay = 0])

ReconnectTimerFires ==
    /\ ~hung
    /\ connectOpens(W) => FreeSockets(W) # {}
    /\ reconnectTimer = "live"
    /\ Becomes(reconnectCallback([W EXCEPT !.reconnectTimer = "fired"]))

(* the same callback, with the sockets it opens counted *)
ReconnectTimerFiresCounted ==
    /\ ~hung
    /\ connectOpens(W) => FreeSockets(W) # {}
    /\ reconnectTimer = "live"
    /\ Becomes(reconnectCallback(
          [W EXCEPT !.reconnectTimer = "fired",
                    !.autoAttempts = IF connectOpens(W) THEN @ + 1 ELSE @]))

PingTimerFires ==
    /\ ~hung
    /\ pingTimer \/ leakedIntervals > 0
    /\ Becomes(pingCallback(W))

NextConn ==
    \/ Initialize
    \/ InitializeInvalidKey
    \/ Connect
    \/ Disconnect
    \/ SendMessage
    \/ \E s \in SocketIds : SocketOpen(s)
    \/ \E s \in SocketIds : SocketClose(s)
    \/ \E s \in SocketIds : SocketFail(s)
    \/ \E s \in SocketIds : RecvAuthSuccess(s)
    \/ \E s \in SocketIds : RecvAuthError(s)
    \/ ReconnectTimerFires

SpecConn == Init /\ [][NextConn]_vars

(* A state subscriber and the connection's events *)
NextSubscribe ==
    \/ Initialize
    \/ Connect
    \/ Disconnect
    \/ SubscribeApp
    \/ \E s \in SocketIds : SocketOpen(s)
    \/ \E s \in SocketIds : SocketFail(s)
    \/ \E s \in SocketIds : RecvAuthSuccess(s)
    \/ \E s \in SocketIds : RecvAuthError(s)

SpecSubscribe == Init /\ [][NextSubscribe]_vars

(* The heartbeat: connection events and the interval of startPingTimer *)
NextHeartbeat ==
    \/ Initialize
    \/ Connect
    \/ Disconnect
    \/ \E s \in SocketIds : SocketOpen(s)
    \/ \E s \in SocketIds : SocketClose(s)
    \/ \E s \in SocketIds : RecvAuthSuccess(s)
    \/ ReconnectTimerFires
    \/ PingTimerFires

SpecHeartbeat == Init /\ [][NextHeartbeat]_vars

(* Automatic reconnection alone: connection events and the reconnect timer *)
NextBackoff ==
    \/ Initialize
    \/ Connect
    \/ \E s \in SocketIds : SocketOpen(s)
    \/ \E s \in SocketIds : SocketClose(s)
    \/ \E s \in SocketIds : SocketFail(s)
    \/ \E s \in SocketIds : RecvAuthSuccess(s)
    \/ ReconnectTimerFiresCounted

SpecBackoff == Init /\ [][NextBackoff]_vars

----------------------------------------------------------------------------
(* Directory lookups: calls, relay answers and timers *)

(* useWebSocket: initializeMessageHandler() *)
InitializeMessageHandler ==
    /\ ~hung
    /\ ~msgHandlerOn
    /\ Becomes([W EXCEPT !.msgHandlerOn = TRUE])

LookupUser(q) ==
    /\ ~hung
    /\ Len(calls) < MaxCalls
    /\ Becomes(lookupUser(W, q))

(* the relay answers the oldest lookup it holds, on the socket it came in on *)
RelayLookupResult ==
    /\ ~hung
    /\ Len(relayLookups) > 0
    /\ socks[Head(relayLookups).sock] = "OPEN"
    /\ Becomes(dispatch([W EXCEPT !.relayLookups = Tail(@)],
                        Frame("lookup_result", AddressOf(Head(relayLookups).query))))

RelayLookupError ==
    /\ ~hung
    /\ Len(relayLookups) > 0
    /\ socks[Head(relayLookups).sock] = "OPEN"
    /\ Becomes(dispatch([W EXCEPT !.relayLookups = Tail(@)],
                        Frame("lookup_error", [query |-> Head(relayLookups).query,
                                               error |-> "User not found"])))

(* the 10 second timer of call k fires; timers fire in the order they were set *)
LookupTimeout(k) ==
    /\ ~hung
    /\ k \in 1..Len(calls)
    /\ calls[k].timer = "live"
    /\ \A j \in 1..(k - 1) : calls[j].timer = "fired"
    /\ Becomes(lookupTimeout([W EXCEPT !.calls[k].timer = "fired"], k))

NextLookup ==
    \/ Initialize
    \/ Connect
    \/ InitializeMessageHandler
    \/ \E s \in SocketIds : SocketOpen(s)
    \/ \E s \in SocketIds : SocketClose(s)
    \/ \E s \in SocketIds : RecvAuthSuccess(s)
    \/ \E q \in Queries : LookupUser(q)
    \/ RelayLookupResult
    \/ RelayLookupError
    \/ \E k \in 1..MaxCalls : LookupTimeout(k)

SpecLookup == Init /\ [][NextLookup]_vars

----------------------------------------------------------------------------
(* Payment requests: service calls, relay frames, the clock *)

Tick ==
    /\ ~hung
    /\ \E t \in Times : t > now /\ Becomes([W EXCEPT !.now = t])

SomeSocketOpen == \E s \in SocketIds : socks[s] = "OPEN"

UsedIds == {pendingRequests[i].id : i \in 1..Len(pendingRequests)}
              \cup {awaitingKey[i].payload.requestId : i \in 1..Len(awaitingKey)}

(* createPaymentRequest resumes with the recipient and a fresh uuid:       *)
(* lookupAny resolved, so a lookup_result frame was dispatched, which the  *)
(* relay sends on a socket it has authenticated                            *)
CreatePaymentRequest ==
    /\ ~hung
    /\ msgHandlerOn
    /\ \E s \in SocketIds : socks[s] = "OPEN" /\ relayAuthed[s]
    /\ RequestIds \ UsedIds # {}
    /\ Becomes(createPaymentRequest(W, SmallestIn(RequestIds \ UsedIds),
                                    AddressOf("@alice"), "10"))

(* RequestDetailsScreen: the Decline / Cancel Request confirmation of a    *)
(* request the screen found in the ledger                                  *)
CancelRequest(id) ==
    /\ ~hung
    /\ id \in {pendingRequests[i].id : i \in 1..Len(pendingRequests)}
    /\ Becomes(cancelRequest(W, id))

MarkRequestPaid(id) ==
    /\ ~hung
    /\ Becomes(markRequestPaid(W, id))

(* HomeScreen: expireOldRequests on mount and every minute *)
ExpireOldRequests ==
    /\ ~hung
    /\ Becomes(expireOldRequests(W))

(* a payment_request frame arrives; what it holds is the counterparty's choice *)
RecvPaymentRequest ==
    /\ ~hung
    /\ SomeSocketOpen
    /\ \/ \E id \in RequestIds, e \in Times :
             Becomes(dispatch(W, [type |-> "payment_request",
                                  decrypts |-> TRUE,
                                  payload |-> [requestId |-> id,
                                               amount |-> "10",
                                               senderAddress |-> "0xB0B",
                                               expiresAt |-> e,
                                               createdAt |-> e - REQUEST_EXPIRY_MS]]))
       \/ Becomes(dispatch(W, [type |-> "payment_request",
                               decrypts |-> FALSE,
                               payload |-> Unreadable]))

(* a payment_request whose payload the sender did not build as             *)
(* createPaymentRequest does: createdAt and expiresAt are unrelated        *)
RecvForgedPaymentRequest ==
    /\ ~hung
    /\ SomeSocketOpen
    /\ \E id \in RequestIds, e \in Times, created \in Times \cup {0} :
          Becomes(dispatch(W, [type |-> "payment_request",
                               decrypts |-> TRUE,
                               payload |-> [requestId |-> id,
                                            amount |-> "10",
                                            senderAddress |-> "0xB0B",
                                            expiresAt |-> e,
                                            createdAt |-> created]]))

(* getX25519PrivateKey settles for the oldest waiting payment_request *)
KeychainRead ==
    /\ ~hung
    /\ Len(awaitingKey) > 0
    /\ Becomes(handleIncomingPaymentRequest(
           [W EXCEPT !.awaitingKey = Tail(@),
                     !.overtaken = {id \in @ : Awaiting([W EXCEPT !.awaitingKey = Tail(@)], id) # {}}],
           Head(awaitingKey)))

RecvRequestCancelled(id) ==
    /\ ~hung
    /\ SomeSocketOpen
    /\ Becomes(dispatch(W, Frame("request_cancelled", id)))

RecvRequestPaid(id) ==
    /\ ~hung
    /\ SomeSocketOpen
    /\ Becomes(dispatch(W, Frame("request_paid", id)))

(* RequestDetailsScreen: pendingRequests.find(r => r.id === requestId) *)
findRequest(c, id) ==
    c.pendingRequests[SmallestIn({i \in 1..Len(c.pendingRequests) :
                                     c.pendingRequests[i].id = id})]

(* handlePay starts: the Pay button is shown for a pending received request *)
PayStart(id) ==
    /\ ~hung
    /\ id \in {pendingRequests[i].id : i \in 1..Len(pendingRequests)}
    /\ findRequest(W, id).status = "pending"
    /\ findRequest(W, id).direction = "received"
    /\ paying = {}
    /\ Becomes([W EXCEPT !.paying = @ \cup {id}])

(* handlePay resumes after await authenticate(...) with true and calls     *)
(* sendPayment with the request of the render the callback was made in     *)
SendPayment(id) ==
    /\ ~hung
    /\ id \in paying
    /\ id \notin transfers
    /\ Becomes([W EXCEPT !.transfers = @ \cup {id}])

(* sendPayment resolved: updateRequest(request.id, { status: 'paid' }) *)
PayComplete(id) ==
    /\ ~hung
    /\ id \in paying
    /\ id \in transfers
    /\ Becomes(updateRequest([W EXCEPT !.paying = @ \ {id}, !.transfers = @ \ {id}],
                             id, [status |-> "paid"]))

(* biometric check refused or sendPayment rejected *)
PayFails(id) ==
    /\ ~hung
    /\ id \in paying
    /\ Becomes([W EXCEPT !.paying = @ \ {id}, !.transfers = @ \ {id}])

NextLedger ==
    \/ Initialize
    \/ Connect
    \/ InitializeMessageHandler
    \/ \E s \in SocketIds : SocketOpen(s)
    \/ \E s \in SocketIds : RecvAuthSuccess(s)
    \/ Tick
    \/ CreatePaymentRequest
    \/ \E id \in RequestIds : CancelRequest(id)
    \/ \E id \in RequestIds : MarkRequestPaid(id)
    \/ ExpireOldRequests
    \/ RecvPaymentRequest
    \/ KeychainRead
    \/ \E id \in RequestIds : RecvRequestCancelled(id)
    \/ \E id \in RequestIds : RecvRequestPaid(id)

SpecLedger == Init /\ [][NextLedger]_vars

(* Frames of any content from the relay, and onMessage subscribers *)
InboundTypes == {"", "auth_success", "auth_error", "pong", "request_paid"}
InboundData ==
    {[valid |-> FALSE, type |-> "", hasPayload |-> FALSE]}
        \cup {[valid |-> TRUE, type |-> t, hasPayload |-> p] :
                  t \in InboundTypes, p \in BOOLEAN}

(* onMessage(handler) *)
OnMessage(handler) ==
    /\ ~hung
    /\ \A i \in 1..Len(messageHandlers) : messageHandlers[i] # handler
    /\ Becomes([W EXCEPT !.messageHandlers = Append(@, handler)])

(* a frame arrives on a socket; an auth reply is the relay's answer to an  *)
(* auth frame it holds                                                     *)
RecvFrame(s, data) ==
    /\ ~hung
    /\ socks[s] \in {"OPEN", "CLOSING"}
    /\ data.type \in {"auth_success", "auth_error"} => authPending[s] > 0
    /\ \E replied \in {IF data.type \in {"auth_success", "auth_error"}
                        THEN [W EXCEPT !.authPending[s] = @ - 1,
                                       !.relayAuthed[s] = data.type = "auth_success"]
                        ELSE W} :
          Becomes(onmessage(replied, data))

NextFrames ==
    \/ Initialize
    \/ InitializeMessageHandler
    \/ Connect
    \/ Disconnect
    \/ \E handler \in {"throwing", "observer"} : OnMessage(handler)
    \/ \E s \in SocketIds : SocketOpen(s)
    \/ \E s \in SocketIds, data \in InboundData : RecvFrame(s, data)

SpecFrames == Init /\ [][NextFrames]_vars

(* lookupAny on queries of every shape *)
Repeat(ch, n) == [i \in 1..n |-> ch]

QueryBodies ==
    {Repeat(49, n) : n \in {0, 5, 6}}
        \cup {Repeat(97, n) : n \in {2, 3, 20, 21, 40}}
        \cup {<< 97, 95, 49 >>, << 97, 45, 98 >>}

QueryPrefixes == {<< >>, << 64 >>, << 48, 120 >>}

QueryCores == {prefix \o body : prefix \in QueryPrefixes, body \in QueryBodies}

AnyQueries ==
    QueryCores
        \cup {<< 32, 9 >> \o prefix \o body \o << 10 >> :
                 prefix \in QueryPrefixes,
                 body \in {Repeat(49, 6), Repeat(97, 3), Repeat(97, 40)}}

LookupAny(q) ==
    /\ ~hung
    /\ Len(calls) < MaxCalls
    /\ Becomes(lookupAny(W, q))

NextResolve ==
    \/ Initialize
    \/ Connect
    \/ \E s \in SocketIds : SocketOpen(s)
    \/ \E s \in SocketIds : RecvAuthSuccess(s)
    \/ \E q \in AnyQueries : LookupAny(q)

SpecResolve == Init /\ [][NextResolve]_vars

(* The three ways a request is marked paid *)
NextPaid ==
    \/ Initialize
    \/ Connect
    \/ InitializeMessageHandler
    \/ \E s \in SocketIds : SocketOpen(s)
    \/ \E s \in SocketIds : RecvAuthSuccess(s)
    \/ CreatePaymentRequest
    \/ RecvPaymentRequest
    \/ KeychainRead
    \/ \E id \in RequestIds : MarkRequestPaid(id)
    \/ \E id \in RequestIds : RecvRequestPaid(id)
    \/ \E id \in RequestIds : PayStart(id)
    \/ \E id \in RequestIds : SendPayment(id)
    \/ \E id \in RequestIds : PayComplete(id)

SpecPaid == Init /\ [][NextPaid]_vars

(* Paying a received request while frames about it arrive *)
NextPay ==
    \/ Initialize
    \/ Connect
    \/ InitializeMessageHandler
    \/ \E s \in SocketIds : SocketOpen(s)
    \/ RecvPaymentRequest
    \/ KeychainRead
    \/ \E id \in RequestIds : RecvRequestCancelled(id)
    \/ \E id \in RequestIds : PayStart(id)
    \/ \E id \in RequestIds : SendPayment(id)
    \/ \E id \in RequestIds : PayComplete(id)
    \/ \E id \in RequestIds : PayFails(id)

SpecPay == Init /\ [][NextPay]_vars

(* Inbound frames alone *)
NextInbound ==
    \/ Initialize
    \/ Connect
    \/ InitializeMessageHandler
    \/ \E s \in SocketIds : SocketOpen(s)
    \/ RecvPaymentRequest
    \/ KeychainRead
    \/ \E id \in RequestIds : RecvRequestCancelled(id)
    \/ \E id \in RequestIds : RecvRequestPaid(id)

SpecInbound == Init /\ [][NextInbound]_vars

(* Inbound requests whose payload was not built by createPaymentRequest *)
NextForged ==
    \/ Initialize
    \/ Connect
    \/ InitializeMessageHandler
    \/ \E s \in SocketIds : SocketOpen(s)
    \/ RecvForgedPaymentRequest
    \/ KeychainRead

SpecForged == Init /\ [][NextForged]_vars

(* Creating requests over a connection whose sockets come and go *)
NextCreate ==
    \/ Initialize
    \/ Connect
    \/ InitializeMessageHandler
    \/ \E s \in SocketIds : SocketOpen(s)
    \/ \E s \in SocketIds : SocketClose(s)
    \/ \E s \in SocketIds : RecvAuthSuccess(s)
    \/ CreatePaymentRequest

SpecCreate == Init /\ [][NextCreate]_vars

(* Creating and cancelling requests while the connection comes and goes *)
NextCancel ==
    \/ Initialize
    \/ Connect
    \/ InitializeMessageHandler
    \/ \E s \in SocketIds : SocketOpen(s)
    \/ \E s \in SocketIds : SocketClose(s)
    \/ \E s \in SocketIds : RecvAuthSuccess(s)
    \/ CreatePaymentRequest
    \/ \E id \in RequestIds : CancelRequest(id)

SpecCancel == Init /\ [][NextCancel]_vars

----------------------------------------------------------------------------
(* Profile: registration of the encryption key *)

(* handleSaveUsername up to the keychain read; isConnected mirrors          *)
(* isAuthenticated (useWebSocket's state subscriber)                       *)
SaveUsernameStart ==
    /\ ~hung
    /\ isAuthenticated
    /\ ~savingUsername
    /\ Becomes([W EXCEPT !.savingUsername = TRUE])

(* getX25519PrivateKey settled: updateUsername(trimmed, privateKeyBase64) *)
SaveUsernameResume ==
    /\ ~hung
    /\ savingUsername
    /\ Becomes(updateUsername([W EXCEPT !.savingUsername = FALSE],
                              "alice", "x25519PrivateKeyBase64"))

NextProfile ==
    \/ Initialize
    \/ Connect
    \/ SubscribeApp
    \/ \E s \in SocketIds : SocketOpen(s)
    \/ \E s \in SocketIds : SocketClose(s)
    \/ \E s \in SocketIds : RecvAuthSuccess(s)
    \/ PingTimerFires
    \/ SaveUsernameStart
    \/ SaveUsernameResume

SpecProfile == Init /\ [][NextProfile]_vars

----------------------------------------------------------------------------
(* The encryption envelope on its own *)

Scalars == {<< k >> : k \in 1..MaxScalar}
Nonces == {[i \in 1..NONCE_LENGTH |-> b] : b \in 0..MaxNonce}

PlainBytes == {0, 65, 255}
Plaintexts == UNION {[1..n -> PlainBytes] : n \in 0..MaxPlain}

Amounts == {String(<< 53 >>), String(<< 48, 46, 49, 48 >>)}
Memos == {Undefined, String(<< >>), String(<< 104, 105 >>), String(<< 34, 92 >>),
          String(<< 233, 8364 >>)}
Usernames == {Undefined, String(<< 97, 108 >>)}

Payloads ==
    {[requestId |-> String(<< 114, 49 >>), amount |-> a, currency |-> String(<< 100, 85, 83, 68, 84 >>),
      memo |-> m, senderAddress |-> String(<< 48, 120, 66, 48, 66 >>), senderUsername |-> u,
      createdAt |-> Number(t - REQUEST_EXPIRY_MS), expiresAt |-> Number(t)] :
        a \in Amounts, m \in Memos, u \in Usernames, t \in Times}

InitEnvelope ==
    /\ InitProgram
    /\ exchange = NoExchange
    /\ x25519PrivateKey \in Scalars
    /\ \/ \E plaintext \in Plaintexts :
            envelope = [NoEnvelope EXCEPT !.kind = "bytes",
                                          !.plaintext = plaintext]
       \/ \E data \in Payloads :
            envelope = [NoEnvelope EXCEPT !.kind = "json", !.data = << data >>]

(* encrypt(plaintext, K.public) *)
Encrypt ==
    /\ envelope.kind = "bytes"
    /\ envelope.sealed = << >>
    /\ \E ephemeralPrivateKey \in Scalars, nonce \in Nonces :
          Becomes([W EXCEPT !.envelope.sealed =
              << encrypt(envelope.plaintext, getPublicKey(x25519PrivateKey),
                         ephemeralPrivateKey, nonce) >>])

(* decrypt(payload, K.private) *)
Decrypt ==
    /\ envelope.kind = "bytes"
    /\ envelope.sealed # << >>
    /\ envelope.opened = << >>
    /\ Becomes([W EXCEPT !.envelope.opened =
           << decrypt(envelope.sealed[1], x25519PrivateKey) >>])

(* encryptForTransmission(data, K.public) *)
EncryptForTransmission ==
    /\ envelope.kind = "json"
    /\ envelope.sealed = << >>
    /\ \E ephemeralPrivateKey \in Scalars, nonce \in Nonces :
          Becomes([W EXCEPT !.envelope.sealed =
              << encryptForTransmission(envelope.data[1],
                                        getPublicKey(x25519PrivateKey),
                                        ephemeralPrivateKey, nonce) >>])

(* decryptFromTransmission(serialized, K.private) *)
DecryptFromTransmission ==
    /\ envelope.kind = "json"
    /\ envelope.sealed # << >>
    /\ envelope.opened = << >>
    /\ Becomes([W EXCEPT !.envelope.opened =
           << decryptFromTransmission(envelope.sealed[1], x25519PrivateKey) >>])

NextEnvelope ==
    \/ Encrypt
    \/ Decrypt
    \/ EncryptForTransmission
    \/ DecryptFromTransmission

SpecEnvelope == InitEnvelope /\ [][NextEnvelope]_vars

----------------------------------------------------------------------------
(* An envelope that reaches decrypt with another key pair, or altered *)

InitTamper ==
    /\ InitProgram
    /\ exchange = NoExchange
    /\ x25519PrivateKey \in Scalars
    /\ \E plaintext \in Plaintexts :
          envelope = [NoEnvelope EXCEPT !.kind = "bytes",
                                        !.plaintext = plaintext]

(* byte with bit k (0 the least significant) inverted *)
FlipBit(byte, k) ==
    IF (byte \div (2 ^ k)) % 2 = 1 THEN byte - 2 ^ k ELSE byte + 2 ^ k

PayloadFields == {"ephemeralPublicKey", "nonce", "ciphertext"}

(* the envelopes that differ from payload in one bit of one field *)
Altered(payload) ==
    UNION {{[payload EXCEPT ![field][i] = FlipBit(payload[field][i], k)] :
                i \in 1..Len(payload[field]), k \in 0..7} :
           field \in PayloadFields}

(* decrypt(payload, B.private) for a key pair B other than the recipient's *)
DecryptWithOtherKey ==
    /\ envelope.kind = "bytes"
    /\ envelope.sealed # << >>
    /\ envelope.opened = << >>
    /\ \E otherPrivateKey \in Scalars :
          /\ getPublicKey(otherPrivateKey) # getPublicKey(x25519PrivateKey)
          /\ Becomes([W EXCEPT
                 !.envelope.presented = envelope.sealed,
                 !.envelope.key = << otherPrivateKey >>,
                 !.envelope.opened =
                     << decrypt(envelope.sealed[1], otherPrivateKey) >>])

(* decrypt(altered, K.private) *)
DecryptAltered ==
    /\ envelope.kind = "bytes"
    /\ envelope.sealed # << >>
    /\ envelope.opened = << >>
    /\ \E altered \in Altered(envelope.sealed[1]) :
          Becomes([W EXCEPT
              !.envelope.presented = << altered >>,
              !.envelope.key = << x25519PrivateKey >>,
              !.envelope.opened = << decrypt(altered, x25519PrivateKey) >>])

NextTamper ==
    \/ Encrypt
    \/ Decrypt
    \/ DecryptWithOtherKey
    \/ DecryptAltered

SpecTamper == InitTamper /\ [][NextTamper]_vars

----------------------------------------------------------------------------
(* encrypt called again and again with one plaintext and one recipient.    *)
(* randomBytes is a cryptographic generator: a value it returned is not    *)
(* returned a second time.                                                 *)

randomBytes(values) == values \ envelope.drawn

EncryptAgain ==
    /\ envelope.kind = "bytes"
    /\ Len(envelope.returned) < MaxSeals
    /\ \E ephemeralPrivateKey \in randomBytes(Scalars) :
       \E nonce \in randomBytes(Nonces) :
          Becomes([W EXCEPT
              !.envelope.drawn = @ \cup {ephemeralPrivateKey, nonce},
              !.envelope.returned =
                  Append(@, encrypt(envelope.plaintext,
                                    getPublicKey(x25519PrivateKey),
                                    ephemeralPrivateKey, nonce))])

NextFresh == EncryptAgain

SpecFresh == InitTamper /\ [][NextFresh]_vars

----------------------------------------------------------------------------
(* A peer sends payment requests to this device *)

InitExchange ==
    /\ InitProgram
    /\ exchange = NoExchange
    /\ envelope = NoEnvelope
    /\ x25519PrivateKey \in Scalars

(* createPaymentRequest on the peer resumes: lookupAny resolved to the     *)
(* profile the relay holds for this address                                *)
PeerCreatesPaymentRequest ==
    /\ ~hung
    /\ directoryKey # ""
    /\ Len(exchange.pendingRequests) < MaxExchange
    /\ \E amount \in Amounts, memo \in {Undefined, String(<< 104, 105 >>)},
          ephemeralPrivateKey \in Scalars, nonce \in Nonces :
          Becomes([W EXCEPT !.exchange =
              createPaymentRequestAtPeer(@,
                  KeychainText(directoryKey, x25519PrivateKey),
                  [amount |-> amount, memo |-> memo], now,
                  [ephemeralPrivateKey |-> ephemeralPrivateKey,
                   nonce |-> nonce])])

(* the relay delivers the peer's oldest frame as it received it *)
RelayDelivers ==
    /\ ~hung
    /\ exchange.frames # << >>
    /\ \E s \in SocketIds : socks[s] = "OPEN" /\ relayAuthed[s]
    /\ Becomes(dispatch([W EXCEPT !.exchange.frames = Tail(@)],
                        Opened(Head(exchange.frames), x25519PrivateKey)))

NextExchange ==
    \/ Initialize
    \/ SubscribeApp
    \/ InitializeMessageHandler
    \/ Connect
    \/ \E s \in SocketIds : SocketOpen(s)
    \/ \E s \in SocketIds : RecvAuthSuccess(s)
    \/ SaveUsernameStart
    \/ SaveUsernameResume
    \/ PeerCreatesPaymentRequest
    \/ RelayDelivers
    \/ KeychainRead

SpecExchange == InitExchange /\ [][NextExchange]_vars

(* A payment request whose plaintext is not a payload *)

RequiredKeys == {"requestId", "amount", "senderAddress", "createdAt", "expiresAt"}

WellFormedPayload ==
    [requestId |-> String(<< 114, 49 >>), amount |-> String(<< 53 >>),
     currency |-> String(<< 100, 85, 83, 68, 84 >>), memo |-> Undefined,
     senderAddress |-> String(<< 48, 120, 66, 48, 66 >>),
     senderUsername |-> Undefined,
     createdAt |-> Number(0), expiresAt |-> Number(REQUEST_EXPIRY_MS)]

(* the texts a sender seals: the JSON of a payload, of a payload without   *)
(* one of its members, of the empty object, and a text that is not JSON    *)
SealedTexts ==
    {JSONstringify(WellFormedPayload, PayloadKeys)}
    \cup {JSONstringify([WellFormedPayload EXCEPT ![k] = Undefined], PayloadKeys) :
             k \in RequiredKeys}
    \cup {<< 123, 125 >>, << 104, 105 >>}

(* a sender holding the directory's key seals text as encrypt does and     *)
(* hands the relay a payment_request frame around it                       *)
PeerSendsPlaintext ==
    /\ ~hung
    /\ directoryKey # ""
    /\ exchange.frames = << >>
    /\ Len(pendingRequests) < MaxExchange
    /\ \E text \in SealedTexts, ephemeralPrivateKey \in Scalars, nonce \in Nonces :
          LET recipientPublicKey ==
                  base64ToUint8Array(KeychainText(directoryKey, x25519PrivateKey))
              encrypted == serializePayload(
                  encryptString(text, recipientPublicKey.v, ephemeralPrivateKey, nonce))
          IN  /\ recipientPublicKey.ok
              /\ Becomes([W EXCEPT !.exchange.frames = Append(@,
                     [type |-> "payment_request",
                      requestId |-> String(<< 114, 49 >>),
                      encrypted |-> JSONstringify(
                          [k \in Range(EnvelopeKeys) |-> String(encrypted[k])],
                          EnvelopeKeys),
                      expiresAt |-> REQUEST_EXPIRY_MS])])

NextMalformed ==
    \/ Initialize
    \/ SubscribeApp
    \/ InitializeMessageHandler
    \/ Connect
    \/ \E s \in SocketIds : SocketOpen(s)
    \/ \E s \in SocketIds : RecvAuthSuccess(s)
    \/ PeerSendsPlaintext
    \/ RelayDelivers
    \/ KeychainRead

SpecMalformed == InitExchange /\ [][NextMalformed]_vars

----------------------------------------------------------------------------
(* Properties *)

Terminal == {"paid", "cancelled", "expired"}

(* C1: once an entry of the ledger has status paid, cancelled or expired,  *)
(* no step changes that status: the entry keeps its place and its status   *)
(* whatever service call or relay frame comes afterwards.                  *)
C1_TerminalStatusNeverChanges ==
    [][\A i \in 1..Len(pendingRequests) :
          pendingRequests[i].status \in Terminal =>
              /\ i <= Len(pendingRequests')
              /\ pendingRequests'[i].status = pendingRequests[i].status]_vars

(* C2: a lookup call is resolved only with the identity the directory      *)
(* holds for that call's own query.                                        *)
C2_ResultAnswersOwnQuery ==
    \A k \in 1..Len(calls) :
        calls[k].state = "resolved" => calls[k].result = AddressOf(calls[k].query)

(* C3: when the 10 second timer of a lookup call has fired, the call is    *)
(* settled: no call is still pending after its window.                     *)
C3_SettledWithinWindow ==
    \A k \in 1..Len(calls) :
        calls[k].timer = "fired" => calls[k].state # "pending"

(* C4: from the return of disconnect() until the next connect() call no    *)
(* reconnect timer is running and the client holds no transport.           *)
C4_NoReconnectAfterDisconnect ==
    userDisconnected =>
        /\ reconnectTimer # "live"
        /\ ~pingTimer
        /\ ws = NoSocket

PrivateKeys == {"x25519PrivateKeyBase64"}

CarriesPrivateKey(message) ==
    message.type = "register" /\ message.arg.x25519PublicKey \in PrivateKeys

(* C5: no frame handed to the transport, and no frame queued for it,       *)
(* carries the X25519 private key: a register frame's x25519PublicKey is   *)
(* never the private key.                                                  *)
C5_NoPrivateKeyOnTheWire ==
    /\ \A i \in 1..Len(wire) : ~CarriesPrivateKey(wire[i].msg)
    /\ \A i \in 1..Len(messageQueue) : ~CarriesPrivateKey(messageQueue[i])

(* C6: when the payment_request whose keychain read is due carries an      *)
(* expiresAt that is not after now, handling it leaves the ledger as it is. *)
C6_DeadOnArrivalDiscarded ==
    (Len(awaitingKey) > 0 /\ Head(awaitingKey).payload.expiresAt <= now) =>
        handleIncomingPaymentRequest([W EXCEPT !.awaitingKey = Tail(@)],
                                     Head(awaitingKey)).pendingRequests
            = pendingRequests

(* C7: the expiry sweep sets to expired exactly the pending entries whose  *)
(* expiresAt is at or before now, and leaves every other status alone.     *)
C7_SweepExpiresExactlyTheDue ==
    \E swept \in {expireOldRequests(W).pendingRequests} :
        /\ Len(swept) = Len(pendingRequests)
        /\ \A i \in 1..Len(pendingRequests) :
              swept[i].status =
                  IF /\ pendingRequests[i].status = "pending"
                     /\ pendingRequests[i].expiresAt <= now
                  THEN "expired"
                  ELSE pendingRequests[i].status

(* C8: a frame of a caller (anything but the client's own auth frame) is   *)
(* handed to the transport only in phase connected, authenticated.         *)
C8_CallerFramesOnlyWhileConnected ==
    \A i \in 1..Len(wire) :
        wire[i].msg.type # "auth" =>
            wire[i].phase = "connected" /\ wire[i].auth

(* C9: the step that handles auth_success hands the queued frames to the   *)
(* transport, each once and in the order they were queued, and leaves the  *)
(* queue empty.                                                            *)
C9_QueueFlushedInOrder ==
    [][(\E s \in SocketIds : RecvAuthSuccess(s)) =>
          /\ messageQueue' = << >>
          /\ [i \in 1..Len(wire') |-> wire'[i].msg] = messageQueue]_vars

(* C10: the step that handles auth_error ends in phase error, not          *)
(* authenticated, lastError the relay's text; from then until the next     *)
(* connect() call no reconnect timer runs and no transport is held.        *)
C10_AuthErrorIsFatal ==
    [][/\ (\E s \in SocketIds : RecvAuthError(s)) =>
              /\ connectionState' = "error"
              /\ ~isAuthenticated'
              /\ lastError' = "Invalid signature"
       /\ (authRejected /\ authRejected') =>
              /\ reconnectTimer' # "live"
              /\ ws' = NoSocket]_vars

(* C11: a transport failure while automatic attempts remain leaves a       *)
(* reconnect timer running, and whenever a step leaves the connection in   *)
(* phase error without an auth_error rejection a reconnect timer is        *)
(* running.                                                                *)
C11_ErrorSchedulesReconnect ==
    [][/\ ((\E s \in SocketIds : SocketFail(s))
              /\ reconnectAttempts < MAX_RECONNECT_ATTEMPTS) =>
                 reconnectTimer' = "live"
       /\ (connectionState' = "error" /\ ~authRejected') =>
                 reconnectTimer' = "live"]_vars

(* C12: within a run of non-normal closures (one that no normal closure,   *)
(* no auth_success and no connect() or disconnect() call interrupts) every *)
(* reconnect delay is at least the delay scheduled before it, and no delay *)
(* is above MAX_RECONNECT_DELAY.                                           *)
C12_BackoffNeverDecreases ==
    [][/\ scheduledDelay' <= MAX_RECONNECT_DELAY
       /\ scheduledDelay' # 0 => scheduledDelay' >= scheduledDelay]_vars

(* C13: between two moments at which the connection is connected or the    *)
(* caller calls connect() or disconnect(), the reconnect timer opens at    *)
(* most MAX_RECONNECT_ATTEMPTS sockets.                                    *)
C13_AutomaticAttemptsBounded ==
    autoAttempts <= MAX_RECONNECT_ATTEMPTS

(* C14: a cancelRequest call for an id of which the ledger holds no        *)
(* pending entry changes no entry and hands no frame to the connection,    *)
(* neither to the socket nor to the outbound queue.                        *)
C14_CancelOnlyWhilePending ==
    [][\A id \in RequestIds :
          (/\ CancelRequest(id)
           /\ \A i \in 1..Len(pendingRequests) :
                 pendingRequests[i].id = id => pendingRequests[i].status # "pending")
          => /\ pendingRequests' = pendingRequests
             /\ wire' = << >>
             /\ messageQueue' = messageQueue]_vars

(* C15: on a device (each side runs this program), a request_cancelled     *)
(* frame turns the sent entries of its id to cancelled, and a later        *)
(* markRequestPaid call or request_paid frame for an id leaves every       *)
(* cancelled entry of that id cancelled.                                   *)
C15_CancelledSurvivesPaid ==
    [][\A id \in RequestIds : \A i \in 1..Len(pendingRequests) :
          pendingRequests[i].id = id =>
             /\ (RecvRequestCancelled(id) /\ pendingRequests[i].direction = "sent")
                    => pendingRequests'[i].status = "cancelled"
             /\ ((MarkRequestPaid(id) \/ RecvRequestPaid(id))
                    /\ pendingRequests[i].status = "cancelled")
                    => pendingRequests'[i].status = "cancelled"]_vars

(* C16: a createPaymentRequest call that returns success has left a sent,  *)
(* pending entry for its request, and a call whose frame was not handed to *)
(* the socket does not return plain success.                               *)
C16_CreateReportsTransportFailure ==
    \A k \in 1..Len(createResults) :
        /\ createResults[k].success =>
               \E i \in 1..Len(pendingRequests) :
                   /\ pendingRequests[i].id = createResults[k].request
                   /\ pendingRequests[i].direction = "sent"
                   /\ pendingRequests[i].status = "pending"
        /\ ~createResults[k].sent =>
               ~(createResults[k].success /\ createResults[k].error = "")

(* C17: handling a payment_request whose envelope does not parse or does   *)
(* not decrypt changes neither the ledger nor the connection: the error is *)
(* caught and logged by the handler, the subscription stays, the event     *)
(* loop goes on and the handler leaves the queue of waiting frames.        *)
C17_BadEnvelopeContained ==
    [][(KeychainRead /\ ~Head(awaitingKey).decrypts) =>
          /\ pendingRequests' = pendingRequests
          /\ connectionState' = connectionState
          /\ isAuthenticated' = isAuthenticated
          /\ lastError' = lastError
          /\ socks' = socks
          /\ ws' = ws
          /\ messageQueue' = messageQueue
          /\ msgHandlerOn' = msgHandlerOn
          /\ awaitingKey' = Tail(awaitingKey)
          /\ ~hung'
          /\ errorLog' = << "Failed to process payment request" >>]_vars

(* a bad envelope has just been dropped while the ledger holds an entry    *)
(* and the connection is open                                              *)
C17_Witness ==
    /\ errorLog = << "Failed to process payment request" >>
    /\ Len(pendingRequests) > 0
    /\ SomeSocketOpen

(* C18: every entry of the ledger, sent or received, has                   *)
(* expiresAt = createdAt + REQUEST_EXPIRY_MS.                              *)
C18_ExpiryIsCreationPlusTTL ==
    \A i \in 1..Len(pendingRequests) :
        pendingRequests[i].expiresAt
            = pendingRequests[i].createdAt + REQUEST_EXPIRY_MS

(* C19: when handleIncomingPaymentRequest has handled a frame that the     *)
(* peer's createPaymentRequest built and the relay delivered as it was,    *)
(* this device's ledger has gained a received/pending entry with the id   *)
(* and the amount of an entry of the peer's ledger that is sent/pending.   *)
C19_RecipientRecordsWhatSenderSent ==
    [][KeychainRead =>
          /\ Len(pendingRequests') = Len(pendingRequests) + 1
          /\ \E j \in 1..Len(exchange.pendingRequests) :
                LET got == pendingRequests'[Len(pendingRequests')]
                    sent == exchange.pendingRequests[j]
                IN  /\ got.direction = "received" /\ got.status = "pending"
                    /\ sent.direction = "sent" /\ sent.status = "pending"
                    /\ got.id = sent.id
                    /\ got.amount = sent.amount]_vars

(* C20: what decrypt returns for what encrypt made of a plaintext for the  *)
(* public key of the same key pair is that plaintext, and what             *)
(* decryptFromTransmission returns for what encryptForTransmission made    *)
(* of a payload is that payload; neither throws.                           *)
C20_OpenOfSealIsIdentity ==
    envelope.opened # << >> =>
        /\ envelope.opened[1].ok
        /\ envelope.kind = "bytes" => envelope.opened[1].v = envelope.plaintext
        /\ envelope.kind = "json" => envelope.opened[1].v = envelope.data[1]

(* a payload whose memo needs escaping and more than one byte a character  *)
(* has been sealed and opened, and so has a plaintext of MaxPlain bytes    *)
C20_Witness ==
    /\ envelope.opened # << >>
    /\ \/ /\ envelope.kind = "json"
          /\ envelope.data[1].memo \in {String(<< 34, 92 >>),
                                        String(<< 233, 8364 >>)}
          /\ envelope.data[1].senderUsername = Undefined
       \/ /\ envelope.kind = "bytes"
          /\ Len(envelope.plaintext) = MaxPlain

(* C21: decrypt with the private key of another key pair, or of an       *)
(* envelope whose ciphertext, nonce or ephemeral public key was altered,   *)
(* throws and returns no bytes.                                            *)
C21_WrongKeyOrAlteredEnvelopeFails ==
    (/\ envelope.opened # << >>
     /\ envelope.presented # << >>
     /\ \/ envelope.presented # envelope.sealed
        \/ getPublicKey(envelope.key[1]) # getPublicKey(x25519PrivateKey))
        => ~envelope.opened[1].ok

(* C22: two calls of encrypt with the same plaintext and the same        *)
(* recipient public key return different envelopes, and no ephemeral key   *)
(* and no nonce of one call is that of another.                            *)
C22_EnvelopesNeverRepeat ==
    \A i, j \in 1..Len(envelope.returned) :
        i < j =>
            /\ envelope.returned[i] # envelope.returned[j]
            /\ envelope.returned[i].ephemeralPublicKey
                   # envelope.returned[j].ephemeralPublicKey
            /\ envelope.returned[i].nonce # envelope.returned[j].nonce

C22_Witness == Len(envelope.returned) = MaxSeals

(* C23: there is at most one heartbeat interval and only while the       *)
(* connection is connected; a ping is handed to the socket only in the     *)
(* connected phase and is never put into the message queue.                *)
C23_HeartbeatOnlyWhileConnected ==
    /\ leakedIntervals = 0
    /\ pingTimer => connectionState = "connected"
    /\ \A i \in 1..Len(wire) :
          wire[i].msg.type = "ping" => wire[i].phase = "connected"
    /\ \A i \in 1..Len(messageQueue) : messageQueue[i].type # "ping"

(* C24: marking a request paid that is already marked paid, by           *)
(* markRequestPaid, by the completion of a payment or by a request_paid    *)
(* frame, changes nothing in the ledger and raises no error.               *)
AlreadyPaid(id) ==
    /\ \E i \in 1..Len(pendingRequests) : pendingRequests[i].id = id
    /\ \A i \in 1..Len(pendingRequests) :
          pendingRequests[i].id = id => pendingRequests[i].status = "paid"

C24_MarkPaidIdempotent ==
    [][\A id \in RequestIds :
          (/\ AlreadyPaid(id)
           /\ MarkRequestPaid(id) \/ RecvRequestPaid(id) \/ PayComplete(id))
              => pendingRequests' = pendingRequests /\ errorLog' = << >>]_vars

C24_Witness ==
    \E id \in RequestIds :
        /\ AlreadyPaid(id)
        /\ id \in paying
        /\ msgHandlerOn

(* C25: no step removes an entry from the ledger: the entries it held    *)
(* stay at their places with their ids, and entries are only appended.     *)
C25_LedgerOnlyGrows ==
    [][/\ Len(pendingRequests') >= Len(pendingRequests)
       /\ \A i \in 1..Len(pendingRequests) :
             pendingRequests'[i].id = pendingRequests[i].id]_vars

C25_Witness ==
    /\ Len(pendingRequests) = MaxLedger
    /\ \E i \in 1..Len(pendingRequests) : pendingRequests[i].status = "cancelled"
    /\ \E i \in 1..Len(pendingRequests) : pendingRequests[i].status = "expired"

(* C26: onStateChange calls the handler once, with the state the         *)
(* connection is in, and the handler was called with no state before.      *)
StateCalls(log) ==
    LET IsState(call) == call.handler = "state" IN SelectSeq(log, IsState)

C26_SubscriberGetsCurrentStateOnce ==
    [][/\ SubscribeApp =>
             /\ Len(StateCalls(callbacks')) = 1
             /\ StateCalls(callbacks')[1].arg = StateOf(W)
             /\ StateOf(W) = [connectionState |-> connectionState',
                              isAuthenticated |-> isAuthenticated',
                              reconnectAttempts |-> reconnectAttempts',
                              lastError |-> lastError']
       /\ ~appSubscribed' => StateCalls(callbacks') = << >>]_vars

C26_Witness ==
    /\ appSubscribed
    /\ Len(StateCalls(callbacks)) = 1
    /\ connectionState = "connected"
    /\ callbacks[1].arg.connectionState = "connected"
    /\ wire # << >>

(* C27: connect() without credentials opens no socket, schedules no      *)
(* reconnect, leaves the state as it is and reports that the client is not *)
(* initialized; connect() in the connected phase changes nothing.          *)
C27_ConnectRefusedOrNoOp ==
    [][Connect =>
          /\ ~initialized =>
                /\ UNCHANGED << socks, ws, connectionState, isAuthenticated,
                                reconnectAttempts, lastError, reconnectTimer >>
                /\ errorLog' = << "Client not initialized" >>
          /\ connectionState = "connected" =>
                UNCHANGED << socks, ws, connectionState, isAuthenticated,
                             reconnectAttempts, lastError, reconnectTimer >>]_vars

(* C28: a frame that is not JSON or lacks its type or its payload        *)
(* changes neither the state nor the socket; and whatever a subscriber     *)
(* throws, every subscriber is called with each frame that is dispatched,  *)
(* in the order of subscription, and stays subscribed.                     *)
Malformed(data) == ~data.valid \/ data.type = "" \/ ~data.hasPayload

MessageCalls(log) ==
    LET ToSubscriber(call) == call.handler \in {"throwing", "observer"}
    IN  SelectSeq(log, ToSubscriber)

C28_BadFrameAndThrowingSubscriberContained ==
    [][\A s \in SocketIds, data \in InboundData :
          RecvFrame(s, data) =>
             /\ messageHandlers' = messageHandlers
             /\ Malformed(data) =>
                   UNCHANGED << socks, ws, connectionState, isAuthenticated,
                                reconnectAttempts, lastError, reconnectTimer,
                                pingTimer, messageQueue >>
             /\ data.valid /\ data.type \in {"", "request_paid"} =>
                   /\ [i \in 1..Len(MessageCalls(callbacks')) |->
                          MessageCalls(callbacks')[i].handler] = messageHandlers
                   /\ UNCHANGED << socks, ws, connectionState, isAuthenticated,
                                   reconnectAttempts, lastError, reconnectTimer,
                                   pingTimer, messageQueue >>]_vars

(* C29: no onMessage subscriber is called with a pong frame, whatever the  *)
(* phase of the connection.                                                *)
C29_PongNeverDispatched ==
    \A i \in 1..Len(callbacks) :
        callbacks[i].handler \in {"throwing", "observer"}
            => callbacks[i].arg.type # "pong"

C29_Witness ==
    /\ Len(messageHandlers) = 2
    /\ msgHandlerOn
    /\ connectionState = "connected"
    /\ callbacks = << [handler |-> "onmessage",
                       arg |-> [valid |-> TRUE, type |-> "pong", hasPayload |-> TRUE]] >>

(* C30: lookupAny sends one lookup, of the trimmed query (with @ put in  *)
(* front of a bare username), for a query that is an address, an           *)
(* @-handle, a six-digit id or a bare username, tested in this order; for  *)
(* every other query it sends nothing and rejects with the invalid-format  *)
(* error.                                                                  *)
ShapeOf(trimmed) ==
    IF startsWith(trimmed, << 48, 120 >>) /\ Len(trimmed) = 42 THEN "address"
    ELSE IF startsWith(trimmed, << 64 >>) THEN "handle"
    ELSE IF SixDigits(trimmed) THEN "id"
    ELSE IF BareUsername(trimmed) THEN "bare"
    ELSE "none"

LookupsSent(frames) ==
    LET IsLookup(frame) == frame.msg.type = "lookup" IN SelectSeq(frames, IsLookup)

LookupsQueued(queue) ==
    LET IsLookup(message) == message.type = "lookup" IN SelectSeq(queue, IsLookup)

C30_LookupAnyClassifies ==
    [][\A q \in AnyQueries :
          LookupAny(q) =>
            LET trimmed == trim(q)
                asked == IF ShapeOf(trimmed) = "bare" THEN << 64 >> \o trimmed
                         ELSE trimmed
                sent == [i \in 1..Len(LookupsSent(wire')) |->
                            LookupsSent(wire')[i].msg.arg]
                        \o SubSeq([i \in 1..Len(LookupsQueued(messageQueue')) |->
                                     LookupsQueued(messageQueue')[i].arg],
                                  Len(LookupsQueued(messageQueue)) + 1,
                                  Len(LookupsQueued(messageQueue')))
            IN  IF ShapeOf(trimmed) = "none"
                THEN /\ sent = << >>
                     /\ pendingLookups' = pendingLookups
                     /\ calls'[Len(calls')].state = "rejected"
                     /\ calls'[Len(calls')].result = "Invalid identifier format"
                ELSE /\ sent = << asked >>
                     /\ calls'[Len(calls')].state = "pending"
                     /\ calls'[Len(calls')].query = asked]_vars

C30_Witness ==
    /\ Len(calls) = 2
    /\ calls[1].state = "rejected"
    /\ calls[1].query = << 48, 120 >> \o Repeat(97, 21)
    /\ calls[2].state = "pending"
    /\ calls[2].query = << 64 >> \o Repeat(97, 20)

(* C31: a payment_request whose envelope decrypts but whose plaintext is   *)
(* not a well-formed payload (not JSON, or without requestId, amount,      *)
(* senderAddress, createdAt or expiresAt) adds no entry to the ledger:     *)
(* every received entry has all five of these.                             *)
C31_MalformedPayloadAddsNoEntry ==
    \A i \in 1..Len(pendingRequests) :
        pendingRequests[i].direction = "received" =>
            /\ pendingRequests[i].id # Undefined
            /\ pendingRequests[i].amount # Undefined
            /\ pendingRequests[i].counterpartyAddress # Undefined
            /\ pendingRequests[i].createdAt # Undefined
            /\ pendingRequests[i].expiresAt # Undefined

(* the part of C31 about a plaintext that is not JSON: the frame reaches   *)
(* the handler as one that does not open                                   *)
C31_EntriesOnlyOfOpenedFrames ==
    [][KeychainRead /\ ~Head(awaitingKey).decrypts
          => pendingRequests' = pendingRequests]_vars


(* C32: frames are applied to the ledger in the order of their delivery:   *)
(* when the payment_request of a request was delivered before its          *)
(* request_cancelled or request_paid frame, then once both are processed   *)
(* no entry of that request is pending, although the payment_request waits *)
(* for the keychain read.                                                  *)
C32_FramesAppliedInDeliveryOrder ==
    [][\A id \in overtaken :
          (KeychainRead /\ id \notin overtaken') =>
              \A i \in 1..Len(pendingRequests') :
                  pendingRequests'[i].id = id => pendingRequests'[i].status # "pending"]_vars

(* C33: handlePay submits the transfer of a received request only if the   *)
(* request is pending at the moment of submission (so a request cancelled, *)
(* expired or paid while the user was confirming is never paid) and no     *)
(* other handlePay call is under way, and a handlePay call that ends       *)
(* without its transfer having returned leaves the ledger as it is.        *)
C33_TransferOnlyWhilePending ==
    [][\A id \in RequestIds :
          /\ (id \notin transfers /\ id \in transfers') =>
                /\ findRequest(W, id).status = "pending"
                /\ paying = {id}
          /\ PayFails(id) => pendingRequests' = pendingRequests]_vars

(* C34: the ledger holds at most one entry for each request id: a second   *)
(* payment_request with the same id, or an id that is already in use, adds *)
(* no second entry, so that no request is both terminal and pending.       *)
C34_OneEntryPerRequestId ==
    \A i, j \in 1..Len(pendingRequests) :
        pendingRequests[i].id = pendingRequests[j].id => i = j

(* C35: a client has at most one transport socket that is connecting or    *)
(* open, and the open and close events of a socket that is not the current *)
(* one (replaced by connect() or closed by disconnect()) leave the state,  *)
(* the timers, the queue and the socket reference of the client alone.     *)
C35_StaleSocketsAreInert ==
    [][/\ Cardinality({s \in SocketIds : socks'[s] \in {"CONNECTING", "OPEN"}}) <= 1
       /\ \A s \in SocketIds :
            (s # ws /\ (SocketOpen(s) \/ SocketClose(s))) =>
                /\ connectionState' = connectionState
                /\ isAuthenticated' = isAuthenticated
                /\ reconnectTimer' = reconnectTimer
                /\ pingTimer' = pingTimer
                /\ messageQueue' = messageQueue
                /\ (ws' = NoSocket) = (ws = NoSocket)]_vars

(* C36: flushMessageQueue always terminates: no call of it goes on for     *)
(* ever taking a message from the queue and putting it back, whatever the  *)
(* socket does.                                                            *)
C36_FlushTerminates == ~hung

(* C37: isAuthenticated is true only while connectionState is connected,   *)
(* in the state of the client and in every state handed to a state         *)
(* subscriber (from which the store's isConnected is set).                 *)
C37_AuthenticatedOnlyWhileConnected ==
    /\ isAuthenticated => connectionState = "connected"
    /\ \A k \in 1..Len(callbacks) :
          (callbacks[k].handler = "state" /\ callbacks[k].arg.isAuthenticated) =>
              callbacks[k].arg.connectionState = "connected"

(* C38: every open event of a transport puts exactly one auth frame on the *)
(* wire, ahead of any other frame of that step, no other step transmits an *)
(* auth frame (so no flush re-sends one), and the outbound queue never     *)
(* holds an auth frame.                                                    *)
AuthFrames(log) ==
    LET IsAuth(e) == e.msg.type = "auth" IN SelectSeq(log, IsAuth)

C38_OneAuthPerOpenNeverQueued ==
    [][/\ \A k \in 1..Len(messageQueue') : messageQueue'[k].type # "auth"
       /\ IF \E s \in SocketIds : SocketOpen(s)
          THEN /\ Len(AuthFrames(wire')) = 1
               /\ wire'[1].msg.type = "auth"
          ELSE AuthFrames(wire') = << >>]_vars

(* C39: the cancel_request frame of a request is never transmitted before  *)
(* its payment_request frame: when a cancel_request goes on the wire, the  *)
(* payment_request of the same request is neither still in the outbound    *)
(* queue nor transmitted after it.                                         *)
C39_CancelNeverOvertakesRequest ==
    [][\A k \in 1..Len(wire') :
          wire'[k].msg.type = "cancel_request" =>
              /\ \A q \in 1..Len(messageQueue') :
                    messageQueue'[q].type = "payment_request" =>
                        messageQueue'[q].arg # wire'[k].msg.arg
              /\ \A j \in (k + 1)..Len(wire') :
                    wire'[j].msg.type = "payment_request" =>
                        wire'[j].msg.arg # wire'[k].msg.arg]_vars

====
